---- MODULE Spec2Model ----
(***************************************************************************)
(* flexsql: SQL expression trees that are rewritten (Transform) and then   *)
(* printed (Stringify) into a Compiler, the output context.                *)
(*                                                                         *)
(* A Node is a record tagged by its Go type in the field "node".  A nil    *)
(* pointer is the record Nil.  The Compiler is a record: the dialect's     *)
(* precedence and associativity tables, its identifier quote, the text     *)
(* buffer and the placeholder names bound so far.  A Go error is a string, *)
(* "nil" for no error.                                                     *)
(***************************************************************************)
EXTENDS Integers, Sequences, FiniteSets, Bags, TLC

VARIABLES root, c, err, phase, orig, prev, passes, negated, peer, peerC, peerErr, call, out,
          heap, ptr, held, copy

vars == <<root, c, err, phase, orig, prev, passes, negated, peer, peerC, peerErr, call, out, heap, ptr, held, copy>>

(***************************************************************************)
(* Bounds of the model.                                                    *)
(***************************************************************************)
MaxPrec == 2

MaxNots == 4

MaxPasses == 2

(***************************************************************************)
(* operator.go: OperatorType and Associativity (iota constants).           *)
(***************************************************************************)
OpMul == 1

OpAdd == 4

OpSub == 5

OpIsNull == 6

OpIsNotNull == 7

OpBetween == 14

OpNotBetween == 15

OpEq == 24

OpNotEq == 25

OpNot == 26

OpAnd == 27

OpOr == 28

OperatorTypes == 1..28

NonAssociative == 1

LeftAssociative == 2

RightAssociative == 3

(***************************************************************************)
(* grammar.go: the errors.                                                 *)
(***************************************************************************)
nil == "nil"

ErrNoPrecedence == "No precedence"

ErrNoAssociativity == "No associativity"

ErrUnknownFromClauseItem == "Unknown FromClauseItem"

ErrNonAssociative == "Not associative"

ErrZeroLength == "Zero length"

Nil == [node |-> "nil"]

(***************************************************************************)
(* The node types and their constructors.                                  *)
(***************************************************************************)
Column(name) == [node |-> "Column", TableLabel |-> "", Name |-> name]

Placeholder(name) == [node |-> "Placeholder", name |-> name]

SQLType(s) == [node |-> "SQLType", s |-> s]

UnaryOperator(type, symbol, negatedType, negatedSymbol, e, customPrecedence, customAssociativity) ==
    [node |-> "UnaryOperator", Type |-> type, Symbol |-> symbol,
     NegatedType |-> negatedType, NegatedSymbol |-> negatedSymbol, Expr |-> e,
     CustomPrecedence |-> customPrecedence, CustomAssociativity |-> customAssociativity]

BinaryOperator(type, symbol, negatedType, negatedSymbol, left, right, customPrecedence, customAssociativity, suppressSpace) ==
    [node |-> "BinaryOperator", Type |-> type, Symbol |-> symbol,
     NegatedType |-> negatedType, NegatedSymbol |-> negatedSymbol,
     Left |-> left, Right |-> right,
     CustomPrecedence |-> customPrecedence, CustomAssociativity |-> customAssociativity,
     SuppressSpace |-> suppressSpace]

TernaryOperator(type, symbol1, symbol2, negatedType, negatedSymbol1, negatedSymbol2, expr1, expr2, expr3, customPrecedence, customAssociativity) ==
    [node |-> "TernaryOperator", Type |-> type, Symbol1 |-> symbol1, Symbol2 |-> symbol2,
     NegatedType |-> negatedType, NegatedSymbol1 |-> negatedSymbol1,
     NegatedSymbol2 |-> negatedSymbol2,
     Expr1 |-> expr1, Expr2 |-> expr2, Expr3 |-> expr3,
     CustomPrecedence |-> customPrecedence, CustomAssociativity |-> customAssociativity]

Not(e) == UnaryOperator(OpNot, "NOT", 0, "", e, 0, 0)

IsNull(e) == UnaryOperator(OpIsNull, "IS NULL", OpIsNotNull, "IS NOT NULL", e, 0, 0)

IsNotNull(e) == UnaryOperator(OpIsNotNull, "IS NOT NULL", OpIsNull, "IS NULL", e, 0, 0)

And(left, right) == BinaryOperator(OpAnd, "AND", 0, "", left, right, 0, 0, FALSE)

Or(left, right) == BinaryOperator(OpOr, "OR", 0, "", left, right, 0, 0, FALSE)

Add(left, right) == BinaryOperator(OpAdd, "+", 0, "", left, right, 0, 0, FALSE)

Sub(left, right) == BinaryOperator(OpSub, "-", 0, "", left, right, 0, 0, FALSE)

Mul(left, right) == BinaryOperator(OpMul, "*", 0, "", left, right, 0, 0, FALSE)

Eq(left, right) == BinaryOperator(OpEq, "=", OpNotEq, "<>", left, right, 0, 0, FALSE)

NotEq(left, right) == BinaryOperator(OpNotEq, "<>", OpEq, "=", left, right, 0, 0, FALSE)

Between(expr1, expr2, expr3) ==
    TernaryOperator(OpBetween, "BETWEEN", "AND", OpNotBetween, "NOT BETWEEN", "AND",
                    expr1, expr2, expr3, 0, 0)

NotBetween(expr1, expr2, expr3) ==
    TernaryOperator(OpNotBetween, "NOT BETWEEN", "AND", OpBetween, "BETWEEN", "AND",
                    expr1, expr2, expr3, 0, 0)

Cast(expr, sqlType) == [node |-> "CastExpr", expr |-> expr, sqlType |-> sqlType]

FuncExpr(name, args, omitParentheses) ==
    [node |-> "FuncExpr", name |-> name, args |-> args, omitParentheses |-> omitParentheses]

MakeTuple(exprs) == [node |-> "Tuple", exprs |-> exprs]

CaseExpr(conds, results, else_) ==
    [node |-> "CaseExpr", conds |-> conds, results |-> results, else_ |-> else_]

LabeledColumn(e, label) == [node |-> "LabeledColumn", Expr |-> e, Label |-> label]

Table(schema, name) == [node |-> "Table", Schema |-> schema, Name |-> name]

LabeledTable(schema, name, label) ==
    [node |-> "LabeledTable", Schema |-> schema, Name |-> name, Label |-> label]

FromClauseItem(tableRef, subquery, joinClause) ==
    [node |-> "FromClauseItem", TableRef |-> tableRef, Subquery |-> subquery,
     JoinClause |-> joinClause]

FromClause(item) == [node |-> "FromClause", FromClauseItem |-> item]

JoinClause(joinType, left, right, on) ==
    [node |-> "JoinClause", joinType |-> joinType, left |-> left, right |-> right, on |-> on]

LabeledSelectStmt(stmt, label) ==
    [node |-> "LabeledSelectStmt", SelectStmt |-> stmt, Label |-> label]

WhereClause(e) == [node |-> "WhereClause", Expr |-> e]

GroupByClause(exprs) == [node |-> "GroupByClause", exprs |-> exprs]

HavingClause(e) == [node |-> "HavingClause", Expr |-> e]

orderbyItem(expr, desc, nullsSet, nullsLast) ==
    [node |-> "orderbyItem", expr |-> expr, desc |-> desc, nullsSet |-> nullsSet,
     nullsLast |-> nullsLast]

OrderByClause(items) == [node |-> "OrderByClause", items |-> items]

LimitClause(e) == [node |-> "LimitClause", Expr |-> e]

OffsetClause(e) == [node |-> "OffsetClause", Expr |-> e]

SelectStmt(columns, from, where, groupBy, having, orderBy, limit, offset) ==
    [node |-> "SelectStmt", Columns |-> columns, FromClause |-> from,
     WhereClause |-> where, GroupByClause |-> groupBy, HavingClause |-> having,
     OrderByClause |-> orderBy, LimitClause |-> limit, OffsetClause |-> offset]

(***************************************************************************)
(* operator.go: the operator interface.  IsOperator(e) is the type         *)
(* assertion e.(operator).                                                 *)
(***************************************************************************)
IsOperator(e) == e.node \in {"UnaryOperator", "BinaryOperator", "TernaryOperator"}

precedence(op) == op.CustomPrecedence

associativity(op) == op.CustomAssociativity

operatorType(op) == op.Type

isNot(u) == u.Type = OpNot

(***************************************************************************)
(* The Compiler (the output context).                                      *)
(***************************************************************************)
NewCompiler(precedenceTable, associativityTable, quote) ==
    [precedence |-> precedenceTable, associativity |-> associativityTable,
     quote |-> quote, buf |-> "", placeholders |-> <<>>]

CompilerPrecedence(cc, type) == cc.precedence[type]

CompilerAssociativity(cc, type) == cc.associativity[type]

WriteVerbatim(cc, s) == [cc EXCEPT !.buf = @ \o s]

WriteIdentifier(cc, name) == [cc EXCEPT !.buf = @ \o cc.quote \o name \o cc.quote]

Ok(cc) == [c |-> cc, err |-> nil]

Fail(cc, e) == [c |-> cc, err |-> e]

(***************************************************************************)
(* operator.go: resolveOperatorPrecedence, resolveOperatorAssociativity.   *)
(***************************************************************************)
(* The dialect's entry consulted before the operator's own precedence. *)
resolveOperatorPrecedenceTableFirst(op, cc) ==
    LET customPrecedence == precedence(op)
        tablePrecedence == CompilerPrecedence(cc, operatorType(op))
    IN  IF tablePrecedence # 0 THEN [val |-> tablePrecedence, err |-> nil]
        ELSE IF customPrecedence # 0 THEN [val |-> customPrecedence, err |-> nil]
        ELSE [val |-> 0, err |-> ErrNoPrecedence]

resolveOperatorPrecedence(op, cc) ==
    LET customPrecedence == precedence(op)
        tablePrecedence == CompilerPrecedence(cc, operatorType(op))
    IN  IF customPrecedence # 0 THEN [val |-> customPrecedence, err |-> nil]
        ELSE IF tablePrecedence # 0 THEN [val |-> tablePrecedence, err |-> nil]
        ELSE [val |-> 0, err |-> ErrNoPrecedence]

resolveOperatorAssociativity(op, cc) ==
    LET customAssociativity == associativity(op)
        tableAssociativity == CompilerAssociativity(cc, operatorType(op))
    IN  IF customAssociativity # 0 THEN [val |-> customAssociativity, err |-> nil]
        ELSE IF tableAssociativity # 0 THEN [val |-> tableAssociativity, err |-> nil]
        ELSE [val |-> 0, err |-> ErrNoAssociativity]

(***************************************************************************)
(* Stringify: each node type's method, and the dispatch on the type.       *)
(* A result is [c |-> the Compiler afterwards, err |-> the error].         *)
(***************************************************************************)
RECURSIVE Stringify(_, _)

insertPlaceholder(cc, name) ==
    IF \E i \in 1..Len(cc.placeholders) : cc.placeholders[i] = name
    THEN [c |-> cc, pos |-> CHOOSE i \in 1..Len(cc.placeholders) : cc.placeholders[i] = name]
    ELSE [c |-> [cc EXCEPT !.placeholders = Append(@, name)],
          pos |-> Len(cc.placeholders) + 1]

makePlaceholder(cc, name, pos) == "$" \o ToString(pos)

(* The closing parenthesis written also when the node failed. *)
stringifyParenAlwaysCloses(n, cc) ==
    LET r == Stringify(n, WriteVerbatim(cc, "("))
    IN  [c |-> WriteVerbatim(r.c, ")"), err |-> r.err]

stringifyParen(n, cc) ==
    LET r == Stringify(n, WriteVerbatim(cc, "("))
    IN  IF r.err # nil THEN r ELSE Ok(WriteVerbatim(r.c, ")"))

RECURSIVE stringifyRest(_, _, _)
stringifyRest(nodes, i, cc) ==
    IF i > Len(nodes) THEN Ok(cc)
    ELSE LET r == Stringify(nodes[i], WriteVerbatim(cc, ","))
         IN  IF r.err # nil THEN r ELSE stringifyRest(nodes, i + 1, r.c)

stringifyCommaSeparated(nodes, cc) ==
    IF Len(nodes) <= 0 THEN Ok(cc)
    ELSE LET r == Stringify(nodes[1], cc)
         IN  IF r.err # nil THEN r ELSE stringifyRest(nodes, 2, r.c)

SQLTypeStringify(s, cc) == Ok(WriteVerbatim(cc, s.s))

ColumnStringify(col, cc) ==
    LET c1 == IF col.TableLabel # ""
              THEN WriteVerbatim(WriteIdentifier(cc, col.TableLabel), ".")
              ELSE cc
    IN  Ok(WriteIdentifier(c1, col.Name))

(* The text made from the number of names bound, not from the position returned. *)
PlaceholderStringifyLastPosition(p, cc) ==
    LET ins == insertPlaceholder(cc, p.name)
        rendered == makePlaceholder(ins.c, p.name, Len(ins.c.placeholders))
    IN  Ok(WriteVerbatim(ins.c, rendered))

PlaceholderStringify(p, cc) ==
    LET ins == insertPlaceholder(cc, p.name)
        rendered == makePlaceholder(ins.c, p.name, ins.pos)
    IN  Ok(WriteVerbatim(ins.c, rendered))

(* operator.go 149-166: the closure write of UnaryOperator.Stringify. *)
UnaryWrite(u, cc, assoc, needParen) ==
    LET c1 == IF assoc = RightAssociative THEN WriteVerbatim(cc, u.Symbol \o " ") ELSE cc
        r == IF needParen THEN stringifyParen(u.Expr, c1) ELSE Stringify(u.Expr, c1)
    IN  IF r.err # nil THEN r
        ELSE IF assoc = LeftAssociative THEN Ok(WriteVerbatim(r.c, " " \o u.Symbol))
        ELSE r

(* A tie treated like a lower precedence. *)
UnaryNeedParenOnTie(theirPrecedence, ourPrecedence) == theirPrecedence <= ourPrecedence

(* operator.go 175: the unary operand's test. *)
UnaryNeedParen(theirPrecedence, ourPrecedence) == theirPrecedence < ourPrecedence

UnaryOperatorStringify(u, cc) ==
    LET ra == resolveOperatorAssociativity(u, cc)
        rp == resolveOperatorPrecedence(u, cc)
        tp == resolveOperatorPrecedence(u.Expr, cc)
    IN  IF ra.err # nil THEN Fail(cc, ra.err)
        ELSE IF ra.val = NonAssociative THEN Fail(cc, ErrNonAssociative)
        ELSE IF rp.err # nil THEN Fail(cc, rp.err)
        ELSE IF ~IsOperator(u.Expr) THEN UnaryWrite(u, cc, ra.val, FALSE)
        ELSE IF tp.err # nil THEN Fail(cc, tp.err)
        ELSE UnaryWrite(u, cc, ra.val, UnaryNeedParen(tp.val, rp.val))

(* A tie never put in parentheses under a left- or right-associative operator. *)
BinaryNeedParenNoTie(assoc, targetAssoc, theirPrecedence, ourPrecedence) ==
    \/ (assoc = NonAssociative /\ theirPrecedence <= ourPrecedence)
    \/ (assoc # NonAssociative /\ theirPrecedence < ourPrecedence)

(* The tie broken on the operator's own side instead of the opposite one. *)
BinaryNeedParenSameSide(assoc, targetAssoc, theirPrecedence, ourPrecedence) ==
    \/ (assoc = NonAssociative /\ theirPrecedence <= ourPrecedence)
    \/ (assoc # NonAssociative /\ (\/ theirPrecedence < ourPrecedence
                                   \/ (theirPrecedence = ourPrecedence /\ assoc # targetAssoc)))

(* operator.go 247-249: needParen of handleSide. *)
BinaryNeedParen(assoc, targetAssoc, theirPrecedence, ourPrecedence) ==
    \/ (assoc = NonAssociative /\ theirPrecedence <= ourPrecedence)
    \/ (assoc # NonAssociative /\ (\/ theirPrecedence < ourPrecedence
                                   \/ (theirPrecedence = ourPrecedence /\ assoc = targetAssoc)))

(* operator.go 238-254: the closure handleSide of BinaryOperator.Stringify. *)
handleSide(e, targetAssoc, assoc, ourPrecedence, cc) ==
    IF ~IsOperator(e) THEN Stringify(e, cc)
    ELSE LET tp == resolveOperatorPrecedence(e, cc)
         IN  IF tp.err # nil THEN Fail(cc, tp.err)
             ELSE IF BinaryNeedParen(assoc, targetAssoc, tp.val, ourPrecedence)
                  THEN stringifyParen(e, cc)
                  ELSE Stringify(e, cc)

BinaryOperatorStringify(b, cc) ==
    LET ra == resolveOperatorAssociativity(b, cc)
        rp == resolveOperatorPrecedence(b, cc)
        l == handleSide(b.Left, RightAssociative, ra.val, rp.val, cc)
        c1 == IF b.SuppressSpace THEN WriteVerbatim(l.c, b.Symbol)
              ELSE WriteVerbatim(l.c, " " \o b.Symbol \o " ")
    IN  IF ra.err # nil THEN Fail(cc, ra.err)
        ELSE IF rp.err # nil THEN Fail(cc, rp.err)
        ELSE IF l.err # nil THEN l
        ELSE handleSide(b.Right, LeftAssociative, ra.val, rp.val, c1)

(* A tie left without parentheses. *)
TernaryNeedParenStrict(theirPrecedence, ourPrecedence) == theirPrecedence < ourPrecedence

(* operator.go 335: needParen of handleExpr. *)
TernaryNeedParen(theirPrecedence, ourPrecedence) == theirPrecedence <= ourPrecedence

(* operator.go 326-340: the closure handleExpr of TernaryOperator.Stringify. *)
handleExpr(e, ourPrecedence, cc) ==
    IF ~IsOperator(e) THEN Stringify(e, cc)
    ELSE LET tp == resolveOperatorPrecedence(e, cc)
         IN  IF tp.err # nil THEN Fail(cc, tp.err)
             ELSE IF TernaryNeedParen(tp.val, ourPrecedence)
                  THEN stringifyParen(e, cc)
                  ELSE Stringify(e, cc)

TernaryOperatorStringify(t, cc) ==
    LET rp == resolveOperatorPrecedence(t, cc)
        r1 == handleExpr(t.Expr1, rp.val, cc)
        r2 == handleExpr(t.Expr2, rp.val, WriteVerbatim(r1.c, " " \o t.Symbol1 \o " "))
    IN  IF rp.err # nil THEN Fail(cc, rp.err)
        ELSE IF r1.err # nil THEN r1
        ELSE IF r2.err # nil THEN r2
        ELSE handleExpr(t.Expr3, rp.val, WriteVerbatim(r2.c, " " \o t.Symbol2 \o " "))

CastExprStringify(ce, cc) ==
    LET r1 == Stringify(ce.expr, WriteVerbatim(cc, "CAST("))
        r2 == Stringify(ce.sqlType, WriteVerbatim(r1.c, " AS "))
    IN  IF r1.err # nil THEN r1
        ELSE IF r2.err # nil THEN r2
        ELSE Ok(WriteVerbatim(r2.c, ")"))

FuncExprStringify(f, cc) ==
    LET c1 == WriteVerbatim(cc, f.name)
        r1 == Stringify(f.args[1], WriteVerbatim(c1, "("))
        r2 == stringifyRest(f.args, 2, r1.c)
    IN  IF Len(f.args) <= 0
        THEN (IF f.omitParentheses THEN Ok(c1) ELSE Ok(WriteVerbatim(c1, "()")))
        ELSE IF r1.err # nil THEN r1
        ELSE IF r2.err # nil THEN r2
        ELSE Ok(WriteVerbatim(r2.c, ")"))

TupleStringify(t, cc) ==
    LET r == stringifyCommaSeparated(t.exprs, WriteVerbatim(cc, "("))
    IN  IF r.err # nil THEN r ELSE Ok(WriteVerbatim(r.c, ")"))

RECURSIVE caseWhens(_, _, _)
caseWhens(ce, i, cc) ==
    IF i > Len(ce.conds) THEN Ok(cc)
    ELSE LET r1 == Stringify(ce.conds[i], WriteVerbatim(cc, " WHEN "))
             r2 == Stringify(ce.results[i], WriteVerbatim(r1.c, " THEN "))
         IN  IF r1.err # nil THEN r1
             ELSE IF r2.err # nil THEN r2
             ELSE caseWhens(ce, i + 1, r2.c)

CaseExprStringify(ce, cc) ==
    LET r1 == caseWhens(ce, 1, WriteVerbatim(cc, "CASE"))
        r2 == IF ce.else_ # Nil THEN Stringify(ce.else_, WriteVerbatim(r1.c, " ELSE "))
              ELSE r1
    IN  IF r1.err # nil THEN r1
        ELSE IF r2.err # nil THEN r2
        ELSE Ok(WriteVerbatim(r2.c, " END"))

LabeledColumnStringify(l, cc) ==
    LET r == Stringify(l.Expr, cc)
    IN  IF r.err # nil THEN r
        ELSE Ok(WriteIdentifier(WriteVerbatim(r.c, " "), l.Label))

TableStringify(t, cc) ==
    LET c1 == IF t.Schema # ""
              THEN WriteVerbatim(WriteIdentifier(cc, t.Schema), ".")
              ELSE cc
    IN  Ok(WriteIdentifier(c1, t.Name))

LabeledTableStringify(l, cc) ==
    LET c1 == IF l.Schema # "" THEN WriteVerbatim(WriteIdentifier(cc, l.Schema), ".") ELSE cc
    IN  Ok(WriteIdentifier(WriteVerbatim(WriteIdentifier(c1, l.Name), " "), l.Label))

LabeledSelectStmtStringify(l, cc) ==
    LET r == Stringify(l.SelectStmt, WriteVerbatim(cc, "("))
    IN  IF r.err # nil THEN r
        ELSE Ok(WriteIdentifier(WriteVerbatim(r.c, ") "), l.Label))

FromClauseItemStringify(f, cc) ==
    IF f.TableRef # Nil THEN Stringify(f.TableRef, cc)
    ELSE IF f.Subquery # Nil THEN Stringify(f.Subquery, cc)
    ELSE IF f.JoinClause # Nil THEN Stringify(f.JoinClause, cc)
    ELSE Fail(cc, ErrUnknownFromClauseItem)

FromClauseStringify(f, cc) == Stringify(f.FromClauseItem, WriteVerbatim(cc, "FROM "))

JoinClauseStringify(j, cc) ==
    LET r1 == Stringify(j.left, cc)
        r2 == Stringify(j.right, WriteVerbatim(r1.c, " " \o j.joinType \o " "))
    IN  IF r1.err # nil THEN r1
        ELSE IF r2.err # nil THEN r2
        ELSE Stringify(j.on, WriteVerbatim(r2.c, " ON "))

WhereClauseStringify(w, cc) == Stringify(w.Expr, WriteVerbatim(cc, "WHERE "))

GroupByClauseStringify(g, cc) == stringifyCommaSeparated(g.exprs, WriteVerbatim(cc, "GROUP BY "))

HavingClauseStringify(h, cc) == Stringify(h.Expr, WriteVerbatim(cc, "HAVING "))

orderbyItemStringify(o, cc) ==
    LET r == Stringify(o.expr, cc)
        c1 == IF o.desc THEN WriteVerbatim(r.c, " DESC") ELSE r.c
        c2 == IF o.nullsSet /\ o.desc /\ o.nullsLast THEN WriteVerbatim(c1, " NULLS LAST") ELSE c1
        c3 == IF o.nullsSet /\ ~o.desc /\ ~o.nullsLast THEN WriteVerbatim(c2, " NULLS FIRST") ELSE c2
    IN  IF r.err # nil THEN r ELSE Ok(c3)

OrderByClauseStringify(o, cc) == stringifyCommaSeparated(o.items, WriteVerbatim(cc, "ORDER BY "))

LimitClauseStringify(l, cc) == Stringify(l.Expr, WriteVerbatim(cc, "LIMIT "))

OffsetClauseStringify(o, cc) == Stringify(o.Expr, WriteVerbatim(cc, "OFFSET "))

(* grammar.go 754-795: one optional clause of SelectStmt.Stringify. *)
selectClause(r, clause) ==
    IF r.err # nil \/ clause = Nil THEN r ELSE Stringify(clause, WriteVerbatim(r.c, " "))

SelectStmtStringify(s, cc) ==
    LET r1 == Stringify(s.Columns[1], WriteVerbatim(cc, "SELECT "))
        r2 == IF r1.err # nil THEN r1 ELSE stringifyRest(s.Columns, 2, r1.c)
    IN  selectClause(selectClause(selectClause(selectClause(selectClause(selectClause(
            selectClause(r2, s.FromClause), s.WhereClause), s.GroupByClause),
            s.HavingClause), s.OrderByClause), s.LimitClause), s.OffsetClause)

Stringify(n, cc) ==
    CASE n.node = "SQLType" -> SQLTypeStringify(n, cc)
      [] n.node = "Column" -> ColumnStringify(n, cc)
      [] n.node = "Placeholder" -> PlaceholderStringify(n, cc)
      [] n.node = "UnaryOperator" -> UnaryOperatorStringify(n, cc)
      [] n.node = "BinaryOperator" -> BinaryOperatorStringify(n, cc)
      [] n.node = "TernaryOperator" -> TernaryOperatorStringify(n, cc)
      [] n.node = "CastExpr" -> CastExprStringify(n, cc)
      [] n.node = "FuncExpr" -> FuncExprStringify(n, cc)
      [] n.node = "Tuple" -> TupleStringify(n, cc)
      [] n.node = "CaseExpr" -> CaseExprStringify(n, cc)
      [] n.node = "LabeledColumn" -> LabeledColumnStringify(n, cc)
      [] n.node = "Table" -> TableStringify(n, cc)
      [] n.node = "LabeledTable" -> LabeledTableStringify(n, cc)
      [] n.node = "LabeledSelectStmt" -> LabeledSelectStmtStringify(n, cc)
      [] n.node = "FromClauseItem" -> FromClauseItemStringify(n, cc)
      [] n.node = "FromClause" -> FromClauseStringify(n, cc)
      [] n.node = "JoinClause" -> JoinClauseStringify(n, cc)
      [] n.node = "WhereClause" -> WhereClauseStringify(n, cc)
      [] n.node = "GroupByClause" -> GroupByClauseStringify(n, cc)
      [] n.node = "HavingClause" -> HavingClauseStringify(n, cc)
      [] n.node = "orderbyItem" -> orderbyItemStringify(n, cc)
      [] n.node = "OrderByClause" -> OrderByClauseStringify(n, cc)
      [] n.node = "LimitClause" -> LimitClauseStringify(n, cc)
      [] n.node = "OffsetClause" -> OffsetClauseStringify(n, cc)
      [] n.node = "SelectStmt" -> SelectStmtStringify(n, cc)

(***************************************************************************)
(* operator.go: negatable and negate of the three operator types.          *)
(***************************************************************************)
(* A logical NOT not counted as negatable. *)
UnaryOperatorNegatableNoNot(u) == u.NegatedType # 0 /\ u.NegatedSymbol # ""

UnaryOperatorNegatable(u) == isNot(u) \/ (u.NegatedType # 0 /\ u.NegatedSymbol # "")

BinaryOperatorNegatable(b) == b.NegatedType # 0 /\ b.NegatedSymbol # ""

TernaryOperatorNegatable(t) ==
    t.NegatedType # 0 /\ t.NegatedSymbol1 # "" /\ t.NegatedSymbol2 # ""

negatable(op) ==
    CASE op.node = "UnaryOperator" -> UnaryOperatorNegatable(op)
      [] op.node = "BinaryOperator" -> BinaryOperatorNegatable(op)
      [] op.node = "TernaryOperator" -> TernaryOperatorNegatable(op)

UnaryOperatorNegate(u) ==
    IF isNot(u) THEN u.Expr
    ELSE UnaryOperator(u.NegatedType, u.NegatedSymbol, u.Type, u.Symbol, u.Expr,
                       u.CustomPrecedence, u.CustomAssociativity)

(* The stored counterpart kept instead of swapped with the receiver's own kind. *)
BinaryOperatorNegateNoSwap(b) ==
    BinaryOperator(b.NegatedType, b.NegatedSymbol, b.NegatedType, b.NegatedSymbol,
                   b.Left, b.Right, b.CustomPrecedence, b.CustomAssociativity, FALSE)

BinaryOperatorNegate(b) ==
    BinaryOperator(b.NegatedType, b.NegatedSymbol, b.Type, b.Symbol, b.Left, b.Right,
                   b.CustomPrecedence, b.CustomAssociativity, FALSE)

TernaryOperatorNegate(t) ==
    TernaryOperator(t.NegatedType, t.NegatedSymbol1, t.NegatedSymbol2,
                    t.Type, t.Symbol1, t.Symbol2, t.Expr1, t.Expr2, t.Expr3,
                    t.CustomPrecedence, t.CustomAssociativity)

negate(op) ==
    CASE op.node = "UnaryOperator" -> UnaryOperatorNegate(op)
      [] op.node = "BinaryOperator" -> BinaryOperatorNegate(op)
      [] op.node = "TernaryOperator" -> TernaryOperatorNegate(op)

(***************************************************************************)
(* The heap.  Every node but SQLType and Placeholder is built as a pointer *)
(* (&UnaryOperator{...}), and Transform assigns to the fields of the       *)
(* receiver, so a node that two parents hold is changed for both.  A heap  *)
(* is a sequence of cells, a pointer an index into it and 0 the nil        *)
(* pointer; a cell is a node whose children are pointers.  (SQLType and    *)
(* Placeholder are strings held by value; they are never assigned to, and  *)
(* are kept in cells like the rest.)                                       *)
(***************************************************************************)
(* The fields of a node that hold one child, and those that hold a slice. *)
PointerFields(n) ==
    CASE n.node = "UnaryOperator" -> <<"Expr">>
      [] n.node = "BinaryOperator" -> <<"Left", "Right">>
      [] n.node = "TernaryOperator" -> <<"Expr1", "Expr2", "Expr3">>
      [] n.node = "CastExpr" -> <<"expr", "sqlType">>
      [] n.node = "CaseExpr" -> <<"else_">>
      [] n.node = "LabeledColumn" -> <<"Expr">>
      [] n.node = "LabeledSelectStmt" -> <<"SelectStmt">>
      [] n.node = "FromClauseItem" -> <<"TableRef", "Subquery", "JoinClause">>
      [] n.node = "FromClause" -> <<"FromClauseItem">>
      [] n.node = "JoinClause" -> <<"left", "right", "on">>
      [] n.node \in {"WhereClause", "HavingClause", "LimitClause", "OffsetClause"} -> <<"Expr">>
      [] n.node = "orderbyItem" -> <<"expr">>
      [] n.node = "SelectStmt" ->
            <<"FromClause", "WhereClause", "GroupByClause", "HavingClause",
              "OrderByClause", "LimitClause", "OffsetClause">>
      [] OTHER -> <<>>

SliceFields(n) ==
    CASE n.node = "FuncExpr" -> <<"args">>
      [] n.node = "Tuple" -> <<"exprs">>
      [] n.node = "CaseExpr" -> <<"conds", "results">>
      [] n.node = "GroupByClause" -> <<"exprs">>
      [] n.node = "OrderByClause" -> <<"items">>
      [] n.node = "SelectStmt" -> <<"Columns">>
      [] OTHER -> <<>>

(* The backing array of a slice, a cell of its own holding the elements. *)
Array(elems) == [node |-> "array", elems |-> elems]

(* A slice ([]Expr): the array it points into, the number of elements of   *)
(* the array before its first, and its length.  Two slices made from one   *)
(* (Func(name)(args...) stores the caller's args), or from overlapping     *)
(* parts of one (args[1:]), point into the same array, and an assignment   *)
(* to an element of one shows in the other.                                *)
Slice(array, off, len) == [array |-> array, off |-> off, len |-> len]

(* x[low:high] *)
Reslice(x, low, high) == Slice(x.array, x.off + low, high - low)

(* The offsets at which the sequence w lies in the sequence all. *)
Offsets(w, all) ==
    { o \in 0..(Len(all) - Len(w)) : \A k \in 1..Len(w) : all[o + k] = w[k] }

(* The arrays of arrays that the elements nodes are a part of. *)
ArraysOf(nodes, arrays) ==
    IF nodes = <<>> THEN {}
    ELSE { x \in arrays : x.node = "array" /\ Offsets(nodes, x.elems) # {} }

(* x, once the step r is done.  TLC evaluates a definition where its value *)
(* is first asked for; asking for the heap r leaves evaluates the steps in *)
(* the order they are taken, one inside the other no deeper than the tree. *)
After(r, x) == IF Len(r.h) >= 0 THEN x ELSE x

(* &T{...}: a new cell. *)
New(h, cell) == [h |-> Append(h, cell), p |-> Len(h) + 1]

(* append(x, p): the element is written after the last when the array has  *)
(* room for it (cap(x) > len(x)); otherwise the elements are copied into a *)
(* new array of twice the capacity (of len(x) + 1 when that is more), the  *)
(* rest of which is nil, and the old array is left as it is.               *)
append(h, x, p) ==
    LET cap == Len(h[x.array].elems) - x.off
        newcap == IF x.len + 1 > 2 * cap THEN x.len + 1 ELSE 2 * cap
    IN  IF x.len < cap
        THEN [h |-> [h EXCEPT ![x.array].elems[x.off + x.len + 1] = p],
              s |-> Slice(x.array, x.off, x.len + 1)]
        ELSE LET new == New(h, Array([k \in 1..newcap |->
                                        IF k <= x.len THEN h[x.array].elems[x.off + k]
                                        ELSE IF k = x.len + 1 THEN p ELSE 0]))
             IN  [h |-> new.h, s |-> Slice(new.p, 0, x.len + 1)]

(* The tree n built on the heap, children first.  The trees of the set     *)
(* shared are built once each, every further use holding the same pointer  *)
(* (e := And(x, y) used twice); any other tree is built anew at each use.  *)
(* An array of shared (args := []Expr{x, y}) is built once; the arguments   *)
(* of a function that are a part of it are a slice of it (the longest such *)
(* array, at the first place they lie in it).  Every other constructor     *)
(* copies its arguments into an array of its own.                          *)
(* memo is the set of <<tree, pointer>> of the shared trees built so far.  *)
RECURSIVE Build(_, _, _, _)
RECURSIVE BuildPointers(_, _, _, _, _, _)
RECURSIVE BuildSlice(_, _, _, _, _)
RECURSIVE BuildSlices(_, _, _, _, _, _)
BuildPointers(h, memo, cell, fields, i, shared) ==
    IF i > Len(fields) THEN [h |-> h, memo |-> memo, cell |-> cell]
    ELSE LET r == Build(h, memo, cell[fields[i]], shared)
         IN  After(r, BuildPointers(r.h, r.memo, [cell EXCEPT ![fields[i]] = r.p],
                                    fields, i + 1, shared))

BuildSlice(h, memo, nodes, i, shared) ==
    IF i > Len(nodes) THEN [h |-> h, memo |-> memo, ps |-> <<>>]
    ELSE LET r == Build(h, memo, nodes[i], shared)
             rest == BuildSlice(r.h, r.memo, nodes, i + 1, shared)
         IN  After(r, [h |-> rest.h, memo |-> rest.memo, ps |-> <<r.p>> \o rest.ps])

BuildArray(h, memo, nodes, shared, arrays) ==
    LET from == ArraysOf(nodes, arrays)
    IN  IF from = {}
        THEN LET r == BuildSlice(h, memo, nodes, 1, shared)
                 new == New(r.h, Array(r.ps))
             IN  After(r, [h |-> new.h, memo |-> r.memo, s |-> Slice(new.p, 0, Len(nodes))])
        ELSE LET args == CHOOSE x \in from : \A y \in from : Len(y.elems) <= Len(x.elems)
                 low == CHOOSE o \in Offsets(nodes, args.elems) :
                            \A q \in Offsets(nodes, args.elems) : o <= q
             IN  IF \E m \in memo : m[1] = args
                 THEN [h |-> h, memo |-> memo,
                       s |-> Reslice(Slice((CHOOSE m \in memo : m[1] = args)[2], 0, Len(args.elems)),
                                     low, low + Len(nodes))]
                 ELSE LET r == BuildSlice(h, memo, args.elems, 1, shared)
                          new == New(r.h, Array(r.ps))
                      IN  After(r, [h |-> new.h, memo |-> r.memo \cup {<<args, new.p>>},
                                    s |-> Reslice(Slice(new.p, 0, Len(args.elems)),
                                                  low, low + Len(nodes))])

BuildSlices(h, memo, cell, fields, i, shared) ==
    IF i > Len(fields) THEN [h |-> h, memo |-> memo, cell |-> cell]
    ELSE LET r == BuildArray(h, memo, cell[fields[i]], shared,
                             IF cell.node = "FuncExpr" THEN shared ELSE {})
         IN  After(r, BuildSlices(r.h, r.memo, [cell EXCEPT ![fields[i]] = r.s],
                                  fields, i + 1, shared))

Build(h, memo, n, shared) ==
    IF n = Nil THEN [h |-> h, memo |-> memo, p |-> 0]
    ELSE IF \E m \in memo : m[1] = n
    THEN [h |-> h, memo |-> memo, p |-> (CHOOSE m \in memo : m[1] = n)[2]]
    ELSE LET r1 == BuildPointers(h, memo, n, PointerFields(n), 1, shared)
             r2 == BuildSlices(r1.h, r1.memo, r1.cell, SliceFields(n), 1, shared)
             new == New(r2.h, r2.cell)
         IN  After(r1, After(r2,
                [h |-> new.h,
                 memo |-> IF n \in shared THEN r2.memo \cup {<<n, new.p>>} ELSE r2.memo,
                 p |-> new.p]))

(* The tree a pointer stands for: what Stringify and the caller see. *)
RECURSIVE Deref(_, _)
RECURSIVE DerefPointers(_, _, _, _)
RECURSIVE DerefSlices(_, _, _, _)
DerefPointers(h, cell, fields, i) ==
    IF i > Len(fields) THEN cell
    ELSE DerefPointers(h, [cell EXCEPT ![fields[i]] = Deref(h, cell[fields[i]])], fields, i + 1)

DerefSlices(h, cell, fields, i) ==
    IF i > Len(fields) THEN cell
    ELSE LET x == cell[fields[i]]
         IN  DerefSlices(h, [cell EXCEPT ![fields[i]] =
                                [k \in 1..x.len |-> Deref(h, h[x.array].elems[x.off + k])]],
                         fields, i + 1)

Deref(h, p) ==
    IF p = 0 THEN Nil
    ELSE DerefSlices(h, DerefPointers(h, h[p], PointerFields(h[p]), 1), SliceFields(h[p]), 1)

(***************************************************************************)
(* Transform: each node type's method, on the receiver h[p], and the       *)
(* dispatch on the type.  A result is [h |-> the heap afterwards, p |->    *)
(* the pointer returned, negated |-> the operators whose negate() the      *)
(* traversal called, as trees].  The Compiler is passed through and never  *)
(* read, so it is left out.                                                *)
(***************************************************************************)
RECURSIVE TransformAt(_, _)

(* return x *)
Same(h, p) == [h |-> h, p |-> p, negated |-> {}]

(* x.f = x.f.Transform(c), after what r did. *)
TransformField(r, p, f) ==
    LET t == TransformAt(r.h, r.h[p][f])
    IN  After(r, After(t, [h |-> [t.h EXCEPT ![p][f] = t.p], p |-> p,
                           negated |-> r.negated \cup t.negated]))

(* if x.f != nil { x.f = x.f.Transform(c) } *)
TransformOpt(r, p, f) == After(r, IF r.h[p][f] = 0 THEN r ELSE TransformField(r, p, f))

(* for i, v := range x.f { x.f[i] = v.Transform(c) }, from index i on. *)
RECURSIVE TransformSeq(_, _, _, _)
TransformSeq(r, p, f, i) ==
    IF i > r.h[p][f].len THEN r
    ELSE LET x == r.h[p][f]
             t == TransformAt(r.h, r.h[x.array].elems[x.off + i])
             next == [h |-> [t.h EXCEPT ![x.array].elems[x.off + i] = t.p], p |-> p,
                      negated |-> r.negated \cup t.negated]
         IN  After(t, After(next, TransformSeq(next, p, f, i + 1)))

(* v.negate(): the operand of a NOT, or a new operator with the fields of v. *)
negateAt(h, q) ==
    IF h[q].node = "UnaryOperator" /\ isNot(h[q]) THEN [h |-> h, p |-> negate(h[q])]
    ELSE New(h, negate(h[q]))

(* The negated counterpart returned as it is, not rewritten in its turn. *)
UnaryOperatorTransformOnce(h, p) ==
    LET v == h[p].Expr
    IN  IF isNot(h[p]) /\ IsOperator(h[v]) /\ negatable(h[v])
        THEN LET n == negateAt(h, v)
             IN  [h |-> n.h, p |-> n.p, negated |-> {Deref(h, v)}]
        ELSE TransformField(Same(h, p), p, "Expr")

(* The child negated when it is an operator, negatable or not. *)
UnaryOperatorTransformUnchecked(h, p) ==
    LET v == h[p].Expr
    IN  IF isNot(h[p]) /\ IsOperator(h[v])
        THEN LET n == negateAt(h, v)
                 t == TransformAt(n.h, n.p)
             IN  After(n, [h |-> t.h, p |-> t.p, negated |-> {Deref(h, v)} \cup t.negated])
        ELSE TransformField(Same(h, p), p, "Expr")

UnaryOperatorTransform(h, p) ==
    LET v == h[p].Expr
    IN  IF isNot(h[p]) /\ IsOperator(h[v]) /\ negatable(h[v])
        THEN LET n == negateAt(h, v)
                 t == TransformAt(n.h, n.p)
             IN  After(n, [h |-> t.h, p |-> t.p, negated |-> {Deref(h, v)} \cup t.negated])
        ELSE TransformField(Same(h, p), p, "Expr")

BinaryOperatorTransform(h, p) ==
    TransformField(TransformField(Same(h, p), p, "Left"), p, "Right")

TernaryOperatorTransform(h, p) ==
    TransformField(TransformField(TransformField(Same(h, p), p, "Expr1"), p, "Expr2"), p, "Expr3")

CastExprTransform(h, p) ==
    TransformField(TransformField(Same(h, p), p, "expr"), p, "sqlType")

FuncExprTransform(h, p) == TransformSeq(Same(h, p), p, "args", 1)

TupleTransform(h, p) == TransformSeq(Same(h, p), p, "exprs", 1)

CaseExprTransform(h, p) ==
    TransformOpt(TransformSeq(TransformSeq(Same(h, p), p, "conds", 1), p, "results", 1),
                 p, "else_")

LabeledColumnTransform(h, p) == Same(h, p)

FromClauseItemTransform(h, p) ==
    IF h[p].TableRef # 0 THEN TransformField(Same(h, p), p, "TableRef")
    ELSE IF h[p].Subquery # 0 THEN TransformField(Same(h, p), p, "Subquery")
    ELSE IF h[p].JoinClause # 0 THEN TransformField(Same(h, p), p, "JoinClause")
    ELSE Same(h, p)

FromClauseTransform(h, p) == TransformField(Same(h, p), p, "FromClauseItem")

JoinClauseTransform(h, p) ==
    TransformField(TransformField(TransformField(Same(h, p), p, "left"), p, "right"), p, "on")

LabeledSelectStmtTransform(h, p) == TransformField(Same(h, p), p, "SelectStmt")

(* WhereClause, HavingClause, LimitClause, OffsetClause: x.Expr = x.Expr.Transform(c). *)
ExprClauseTransform(h, p) == TransformField(Same(h, p), p, "Expr")

GroupByClauseTransform(h, p) == TransformSeq(Same(h, p), p, "exprs", 1)

orderbyItemTransform(h, p) == TransformField(Same(h, p), p, "expr")

OrderByClauseTransform(h, p) == TransformSeq(Same(h, p), p, "items", 1)

SelectStmtTransform(h, p) ==
    LET cols == TransformSeq(Same(h, p), p, "Columns", 1)
        f == TransformOpt(cols, p, "FromClause")
        w == TransformOpt(f, p, "WhereClause")
        g == TransformOpt(w, p, "GroupByClause")
        hv == TransformOpt(g, p, "HavingClause")
        ob == TransformOpt(hv, p, "OrderByClause")
        l == TransformOpt(ob, p, "LimitClause")
    IN  TransformOpt(l, p, "OffsetClause")

TransformAt(h, p) ==
    LET n == h[p]
    IN  CASE n.node \in {"SQLType", "Column", "Placeholder", "Table", "LabeledTable"} -> Same(h, p)
          [] n.node = "UnaryOperator" -> UnaryOperatorTransform(h, p)
          [] n.node = "BinaryOperator" -> BinaryOperatorTransform(h, p)
          [] n.node = "TernaryOperator" -> TernaryOperatorTransform(h, p)
          [] n.node = "CastExpr" -> CastExprTransform(h, p)
          [] n.node = "FuncExpr" -> FuncExprTransform(h, p)
          [] n.node = "Tuple" -> TupleTransform(h, p)
          [] n.node = "CaseExpr" -> CaseExprTransform(h, p)
          [] n.node = "LabeledColumn" -> LabeledColumnTransform(h, p)
          [] n.node = "LabeledSelectStmt" -> LabeledSelectStmtTransform(h, p)
          [] n.node = "FromClauseItem" -> FromClauseItemTransform(h, p)
          [] n.node = "FromClause" -> FromClauseTransform(h, p)
          [] n.node = "JoinClause" -> JoinClauseTransform(h, p)
          [] n.node \in {"WhereClause", "HavingClause", "LimitClause", "OffsetClause"} ->
                ExprClauseTransform(h, p)
          [] n.node = "GroupByClause" -> GroupByClauseTransform(h, p)
          [] n.node = "orderbyItem" -> orderbyItemTransform(h, p)
          [] n.node = "OrderByClause" -> OrderByClauseTransform(h, p)
          [] n.node = "SelectStmt" -> SelectStmtTransform(h, p)

(* Transform of the tree n built with the trees of shared held once: the   *)
(* tree it returns and the operators it negated.                           *)
TransformLog(n, shared) ==
    LET built == Build(<<>>, {}, n, shared)
        t == TransformAt(built.h, built.p)
    IN  [node |-> Deref(t.h, t.p), negated |-> t.negated]

(* Transform of a tree no two parents of which hold the same node. *)
Transform(n) == TransformLog(n, {}).node

(***************************************************************************)
(* The dialects the output context is built from.                          *)
(***************************************************************************)
NoTable == [t \in OperatorTypes |-> 0]

DialectPrecedence ==
    [t \in OperatorTypes |->
        CASE t \in {OpMul, 2, 3} -> 8
          [] t \in {OpAdd, OpSub} -> 7
          [] t \in 12..19 -> 6
          [] t \in 20..25 -> 5
          [] t \in 6..11 -> 4
          [] t = OpNot -> 3
          [] t = OpAnd -> 2
          [] t = OpOr -> 1]

DialectAssociativity ==
    [t \in OperatorTypes |->
        CASE t \in 1..5 -> LeftAssociative
          [] t \in 6..11 -> LeftAssociative
          [] t \in 12..25 -> NonAssociative
          [] t = OpNot -> RightAssociative
          [] t \in {OpAnd, OpOr} -> LeftAssociative]

Dialect == NewCompiler(DialectPrecedence, DialectAssociativity, "")

QuotingDialect == NewCompiler(DialectPrecedence, DialectAssociativity, "\"")

(* A dialect that gives OpAdd one entry and every other operator type another. *)
TwoLevelDialect(pAdd, aAdd, pRest, aRest) ==
    NewCompiler([t \in OperatorTypes |-> IF t = OpAdd THEN pAdd ELSE pRest],
                [t \in OperatorTypes |-> IF t = OpAdd THEN aAdd ELSE aRest], "")

(***************************************************************************)
(* The trees the rewrite is run on: chains of NOT over a base expression,  *)
(* alone or as a child of each node type that has children.                *)
(***************************************************************************)
a == Column("a")

b == Column("b")

RECURSIVE NotChain(_, _)
NotChain(k, e) == IF k = 0 THEN e ELSE Not(NotChain(k - 1, e))

Bases ==
    { a,
      Placeholder("x"),
      IsNull(a),
      UnaryOperator(OpIsNull, "IS NULL", OpIsNotNull, "IS NOT NULL", a, 9, LeftAssociative),
      UnaryOperator(OpIsNull, "IS NULL", OpIsNotNull, "", a, 0, 0),
      UnaryOperator(OpSub, "-", 0, "", a, 9, RightAssociative),
      UnaryOperator(OpIsNull, "IS NULL", OpNot, "NOT", Eq(a, b), 0, 0),
      Eq(a, b),
      BinaryOperator(OpEq, "=", OpNotEq, "<>", a, b, 5, LeftAssociative, TRUE),
      And(a, b),
      Between(a, b, b),
      TernaryOperator(OpBetween, "BETWEEN", "AND", OpNotBetween, "NOT BETWEEN", "", a, b, b, 0, 0),
      TernaryOperator(OpBetween, "BETWEEN", "AND", OpNotBetween, "NOT BETWEEN", "AND", a, b, b, 9, LeftAssociative),
      MakeTuple(<<a, b>>),
      Table("s", "t"),
      Table("", "t") }

Chains == { NotChain(k, e) : k \in 0..MaxNots, e \in Bases }

TableItem == FromClauseItem(LabeledTable("", "t", "t1"), Nil, Nil)

SelectOf(e) ==
    SelectStmt(<<LabeledColumn(e, "l")>>, Nil, Nil, Nil, Nil, Nil, Nil, Nil)

SelectWhere(e) ==
    SelectStmt(<<LabeledColumn(a, "l")>>, FromClause(TableItem), WhereClause(e),
               Nil, Nil, Nil, Nil, Nil)

SelectFull(e) ==
    SelectStmt(<<LabeledColumn(a, "l"), LabeledColumn(b, "m")>>,
               FromClause(FromClauseItem(Nil, Nil, JoinClause("JOIN", TableItem,
                   FromClauseItem(Nil, LabeledSelectStmt(SelectWhere(e), "s"), Nil), e))),
               Nil, GroupByClause(<<e>>), HavingClause(e),
               OrderByClause(<<orderbyItem(e, TRUE, TRUE, TRUE)>>),
               LimitClause(e), OffsetClause(e))

(* Two functions made from one slice of arguments (rest := args[1:], then   *)
(* Func("g")(rest...) and Func("f")(rest...)), one of them in a column.     *)
SelectArgs(e) ==
    SelectStmt(<<LabeledColumn(FuncExpr("g", <<e>>, FALSE), "l")>>, Nil,
               WhereClause(FuncExpr("f", <<e>>, FALSE)), Nil, Nil, Nil, Nil, Nil)

(* A function made from the arguments of another but the first             *)
(* (Func("g")(args[1:]...) and Func("f")(args...)), in a column.            *)
SelectTail(e) ==
    SelectStmt(<<LabeledColumn(FuncExpr("g", <<e>>, FALSE), "l")>>, Nil,
               WhereClause(FuncExpr("f", <<b, e>>, FALSE)), Nil, Nil, Nil, Nil, Nil)

(* One expression held by a column and by three clauses. *)
SelectBoth(e) ==
    SelectStmt(<<LabeledColumn(e, "l")>>, FromClause(TableItem), WhereClause(e),
               Nil, HavingClause(e), Nil, LimitClause(e), Nil)

Wrapped(e) ==
    { And(e, b), Eq(b, e), IsNull(e), Between(b, e, b),
      Not(And(e, b)), Not(Eq(b, e)), Not(Not(Between(e, b, b))),
      MakeTuple(<<b, e>>), Cast(e, SQLType("INTEGER")), FuncExpr("f", <<b, e>>, FALSE),
      CaseExpr(<<e>>, <<b>>, Nil), CaseExpr(<<b>>, <<e>>, e),
      SelectOf(e), SelectWhere(e), SelectFull(e),
      SelectBoth(And(e, b)), SelectBoth(IsNull(e)), SelectBoth(Not(And(e, b))),
      SelectArgs(e), SelectTail(e) }

RewriteTrees == Chains \cup UNION { Wrapped(e) : e \in Chains }

(* The expressions and the arrays of arguments a caller builds once and     *)
(* uses, whole or in part, at every place they occur.                      *)
HeldOnce ==
    Chains \cup UNION { {And(e, b), IsNull(e), Not(And(e, b)), Array(<<b, e>>)} : e \in Chains }

(* A tree is built with every node its own, or with those of HeldOnce shared. *)
Sharings == { {}, HeldOnce }

(* The tree a root is compared with after both are printed. *)
PeersOf(t) ==
    IF t = Not(IsNull(a)) THEN {IsNotNull(a)}
    ELSE IF t = Not(Not(Eq(a, b))) THEN {Eq(a, b)}
    ELSE {Nil}

(***************************************************************************)
(* The state machine.  root is the tree the caller holds, c the Compiler   *)
(* it is printed into, err what Stringify returned.  orig is the tree as   *)
(* built and prev the tree before the last Transform; negated is the set   *)
(* of operators whose negate() the last Transform called.  peer is a       *)
(* second tree, printed into a Compiler of its own (peerC, peerErr).  call  *)
(* is the last call of a function of the package made directly, with its   *)
(* arguments, and out what it returned.  heap holds the nodes of root and  *)
(* ptr is the pointer the caller holds, root being the tree it stands for; *)
(* held is the set of expressions the caller built once each.              *)
(***************************************************************************)
Built(t, shared, cc, p) ==
    /\ LET built == Build(<<>>, {}, t, shared)
       IN  /\ heap = built.h
           /\ ptr = built.p
    /\ held = shared
    /\ copy = 0
    /\ root = t
    /\ orig = t
    /\ prev = Nil
    /\ c = cc
    /\ err = nil
    /\ phase = "built"
    /\ passes = 0
    /\ negated = {}
    /\ peer = p
    /\ peerC = cc
    /\ peerErr = nil
    /\ call = Nil
    /\ out = Nil

Start(t, cc, p) == Built(t, {}, cc, p)

Init ==
    \E t \in RewriteTrees : \E p \in PeersOf(t) : \E d \in {Dialect, QuotingDialect} :
        \E shared \in Sharings : Built(t, shared, d, p)

TransformRoot ==
    /\ phase \in {"built", "transformed"}
    /\ passes < MaxPasses
    /\ LET t == TransformAt(heap, ptr)
       IN  /\ heap' = t.h
           /\ ptr' = t.p
           /\ root' = Deref(t.h, t.p)
           /\ negated' = t.negated
    /\ prev' = root
    /\ passes' = passes + 1
    /\ phase' = "transformed"
    /\ UNCHANGED <<c, err, orig, peer, peerC, peerErr, call, out, held, copy>>

StringifyRoot ==
    /\ phase \in {"built", "transformed"}
    /\ LET r == Stringify(root, c)
       IN  /\ c' = r.c
           /\ err' = r.err
    /\ phase' = "printed"
    /\ UNCHANGED <<root, orig, prev, passes, negated, peer, peerC, peerErr, call, out, heap, ptr, held, copy>>

StringifyPeer ==
    /\ phase = "printed"
    /\ peer # Nil
    /\ LET r == Stringify(peer, peerC)
       IN  /\ peerC' = r.c
           /\ peerErr' = r.err
    /\ phase' = "peerPrinted"
    /\ UNCHANGED <<root, c, err, orig, prev, passes, negated, peer, call, out, heap, ptr, held, copy>>

Next == TransformRoot \/ StringifyRoot \/ StringifyPeer

Spec == Init /\ [][Next]_vars

(***************************************************************************)
(* A CASE expression built step by step: Case(cond, result), then any      *)
(* number of When(cond, result) and Else(e), before it is rewritten and    *)
(* printed.  The caller may copy the struct (cp := *ce): copy is then the  *)
(* pointer to the copy, whose slices point into the arrays of the first,   *)
(* and When and Else are called on either, all before the first Transform. *)
(***************************************************************************)
MaxWhens == 3

CaseArgs == { <<a, b>>, <<Not(Eq(a, b)), NotChain(2, a)>> }

CaseInit == \E args \in CaseArgs : Start(CaseExpr(<<args[1]>>, <<args[2]>>, Nil), Dialect, Nil)

Holders == {ptr} \cup (IF copy = 0 THEN {} ELSE {copy})

CopyCaseExpr ==
    /\ phase = "built"
    /\ copy = 0
    /\ LET new == New(heap, heap[ptr])
       IN  /\ heap' = new.h
           /\ copy' = new.p
    /\ UNCHANGED <<root, c, err, phase, orig, prev, passes, negated, peer, peerC, peerErr,
                   call, out, ptr, held>>

When ==
    /\ phase = "built"
    /\ \E ce \in Holders : \E args \in CaseArgs :
          /\ heap[ce].conds.len <= MaxWhens
          /\ LET bc == Build(heap, {}, args[1], {})
                 br == Build(bc.h, {}, args[2], {})
                 conds == append(br.h, br.h[ce].conds, bc.p)
                 results == append(conds.h, conds.h[ce].results, br.p)
             IN  /\ heap' = [results.h EXCEPT ![ce].conds = conds.s, ![ce].results = results.s]
                 /\ root' = Deref(heap', ptr)
    /\ UNCHANGED <<c, err, phase, orig, prev, passes, negated, peer, peerC, peerErr, call, out,
                   ptr, held, copy>>

(* Called once at most, and on the first only, to keep the heap bounded. *)
Else ==
    /\ phase = "built"
    /\ heap[ptr].else_ = 0
    /\ \E args \in CaseArgs :
          LET be == Build(heap, {}, args[1], {})
          IN  /\ heap' = [be.h EXCEPT ![ptr].else_ = be.p]
              /\ root' = Deref(heap', ptr)
    /\ UNCHANGED <<c, err, phase, orig, prev, passes, negated, peer, peerC, peerErr, call, out,
                   ptr, held, copy>>

CaseNext == CopyCaseExpr \/ When \/ Else \/ TransformRoot \/ StringifyRoot

CaseSpec == CaseInit /\ [][CaseNext]_vars

(***************************************************************************)
(* Printing alone: one operator of each arity over children that are       *)
(* columns or operators, with and without its own precedence and           *)
(* associativity, against dialects that set or leave unset each entry.     *)
(***************************************************************************)
RenderDialects ==
    { TwoLevelDialect(pAdd, aRest, pRest, aRest) :
        pAdd \in 0..MaxPrec, pRest \in 0..MaxPrec, aRest \in 0..3 }

Kids(x, y) ==
    { x, Add(x, y), Sub(x, y),
      BinaryOperator(OpAdd, "+", 0, "", x, y, 1, 0, FALSE),
      IsNull(x) }

FewKids(x, y) == { x, Add(x, y), BinaryOperator(OpMul, "*", 0, "", x, y, 1, LeftAssociative, TRUE) }

RenderTrees ==
    LET cp == {0, MaxPrec}
        ca == {0, RightAssociative}
    IN  { UnaryOperator(OpNot, "NOT", 0, "", k, p, s) :
            k \in Kids(a, b) \cup {Between(a, b, b)}, p \in cp, s \in ca \cup {LeftAssociative} }
        \cup
        { BinaryOperator(OpSub, "-", 0, "", k1, k2, p, s, FALSE) :
            k1 \in Kids(a, b), k2 \in Kids(Column("c"), Column("d")), p \in cp, s \in ca }
        \cup
        { TernaryOperator(OpBetween, "BETWEEN", "AND", OpNotBetween, "NOT BETWEEN", "AND",
                          k1, k2, k3, p, 0) :
            k1 \in FewKids(a, b), k2 \in FewKids(b, a), k3 \in Kids(Column("c"), Column("d")),
            p \in cp }
        \cup
        { Sub(Sub(a, b), Column("c")), Sub(a, Sub(b, Column("c"))) }

RenderInit == \E t \in RenderTrees : \E d \in RenderDialects : Start(t, d, Nil)

RenderNext == StringifyRoot

RenderSpec == RenderInit /\ [][RenderNext]_vars

(***************************************************************************)
(* Two groupings of the same operators and leaves, each printed into a     *)
(* Compiler of its own.                                                    *)
(***************************************************************************)
MaxLeaves == 4

(* The largest value of the type Associativity (a uint) an operator is     *)
(* given as its own; RightAssociative is 3.                                *)
MaxAssociativity == 4

GroupLeaves == <<a, b, Column("c"), Column("d"), Column("e")>>

(* The binary operator written between leaf i and leaf i+1: built by the   *)
(* constructors (its level is the dialect's), or with a precedence and an  *)
(* associativity of its own.                                               *)
GroupKinds == {"Sub", "Add", "SubOwn"}

(* The same, with an own associativity that is none of the three named     *)
(* ones, which resolveOperatorAssociativity returns as it is.              *)
OddKinds == {"Sub", "SubOdd"}

MakeBinary(kind, l, r) ==
    CASE kind = "Sub" -> Sub(l, r)
      [] kind = "Add" -> Add(l, r)
      [] kind = "SubOwn" -> BinaryOperator(OpSub, "-", 0, "", l, r, MaxPrec, RightAssociative, FALSE)
      [] kind = "SubOdd" -> BinaryOperator(OpSub, "-", 0, "", l, r, 0, MaxAssociativity, FALSE)
      [] kind = "AndOwn" -> BinaryOperator(OpAnd, "AND", 0, "", l, r, MaxPrec, 0, FALSE)

MakeUnary(kind, e) ==
    CASE kind = "Not" -> Not(e)
      [] kind = "IsNull" -> IsNull(e)

(* Every binary tree over leaves i..j whose operator after leaf k is ks[k], *)
(* listed once each: GroupingsFrom lists those split after leaf k or later. *)
RECURSIVE Groupings(_, _, _)
RECURSIVE GroupingsFrom(_, _, _, _)
Groupings(ks, i, j) == IF i = j THEN <<GroupLeaves[i]>> ELSE GroupingsFrom(ks, i, j, i)

GroupingsFrom(ks, i, j, k) ==
    IF k >= j THEN <<>>
    ELSE LET ls == Groupings(ks, i, k)
             rs == Groupings(ks, k + 1, j)
             q == Len(rs)
         IN  [x \in 1..(Len(ls) * q) |->
                 MakeBinary(ks[k], ls[((x - 1) \div q) + 1], rs[((x - 1) % q) + 1])]
             \o GroupingsFrom(ks, i, j, k + 1)

GroupSequences(n) == [1..(n - 1) -> GroupKinds] \cup [1..(n - 1) -> OddKinds]

(* Every tree over leaves i..j with u unary operators (NOT, IS NULL) and a  *)
(* Sub or an Add between neighbouring leaves.                              *)
RECURSIVE Mixed(_, _, _)
Mixed(i, j, u) ==
    (IF u = 0 /\ i = j THEN {GroupLeaves[i]} ELSE {})
    \cup
    (IF u = 0 THEN {}
     ELSE { MakeUnary(k, t) : k \in {"Not", "IsNull"}, t \in Mixed(i, j, u - 1) })
    \cup
    UNION { UNION { { MakeBinary(k, l, r) :
                        k \in {"Sub", "Add"}, l \in Mixed(i, m, ul), r \in Mixed(m + 1, j, u - ul) } :
                    ul \in 0..u } :
            m \in i..(j - 1) }

(* The operators of a tree, each without its children, as a bag. *)
RECURSIVE OperatorBag(_)
OperatorBag(t) ==
    CASE t.node = "UnaryOperator" -> SetToBag({[t EXCEPT !.Expr = Nil]}) (+) OperatorBag(t.Expr)
      [] t.node = "BinaryOperator" ->
            SetToBag({[t EXCEPT !.Left = Nil, !.Right = Nil]})
            (+) OperatorBag(t.Left) (+) OperatorBag(t.Right)
      [] OTHER -> EmptyBag

(* The trees of one or two unary operators over two leaves and of one over *)
(* three, and the pairs of them that hold the same operators.              *)
MixedTrees == Mixed(1, 2, 1) \cup Mixed(1, 2, 2) \cup Mixed(1, 3, 1)

MixedPairs ==
    { p \in MixedTrees \X MixedTrees : p[1] # p[2] /\ OperatorBag(p[1]) = OperatorBag(p[2]) }

PairsOf(g) ==
    { <<g[p[1]], g[p[2]]>> : p \in { q \in (1..Len(g)) \X (1..Len(g)) : q[1] < q[2] } }

GroupPairs ==
    UNION { UNION { PairsOf(Groupings(ks, 1, n)) : ks \in GroupSequences(n) } :
            n \in 3..MaxLeaves }
    \cup
    { <<Not(Sub(a, b)), Sub(Not(a), b)>>,
      <<IsNull(Add(a, b)), Add(a, IsNull(b))>>,
      <<Between(a, And(b, Column("c")), Column("d")), Between(a, b, And(Column("c"), Column("d")))>>,
      <<Between(a, MakeBinary("AndOwn", b, Column("c")), Column("d")),
        Between(a, b, MakeBinary("AndOwn", Column("c"), Column("d")))>>,
      <<Between(a, b, Sub(Column("c"), Column("d"))), Sub(Between(a, b, Column("c")), Column("d"))>> }

GroupDialects ==
    { TwoLevelDialect(1, aAdd, pRest, aRest) :
        aAdd \in 1..3, pRest \in 1..MaxPrec, aRest \in 1..3 }

(* The two trees are written with the same leaves and operators in the    *)
(* same order: a unary operator that resolves to RightAssociative before   *)
(* its operand, any other after it.                                        *)
RECURSIVE Written(_, _)
Written(t, cc) ==
    CASE t.node = "BinaryOperator" ->
            Written(t.Left, cc) \o <<[t EXCEPT !.Left = Nil, !.Right = Nil]>> \o Written(t.Right, cc)
      [] t.node = "UnaryOperator" ->
            IF resolveOperatorAssociativity(t, cc).val = RightAssociative
            THEN <<[t EXCEPT !.Expr = Nil]>> \o Written(t.Expr, cc)
            ELSE Written(t.Expr, cc) \o <<[t EXCEPT !.Expr = Nil]>>
      [] OTHER -> <<t>>

WrittenAlike(s, t, cc) == Written(s, cc) = Written(t, cc)

(* Dialects that give Sub, NOT and IS NULL a level each, and Add the       *)
(* lowest precedence with the associativity of Sub.                        *)
MixedDialects ==
    { NewCompiler([t \in OperatorTypes |->
                      CASE t = OpNot -> pNot [] t = OpIsNull -> pIsNull
                        [] t = OpAdd -> 1 [] OTHER -> pSub],
                  [t \in OperatorTypes |->
                      CASE t = OpNot -> aNot [] t = OpIsNull -> aIsNull [] OTHER -> aSub], "") :
        pSub \in 1..MaxPrec, aSub \in {NonAssociative, LeftAssociative, RightAssociative},
        pNot \in {1, MaxPrec}, aNot \in {LeftAssociative, RightAssociative},
        pIsNull \in {1, MaxPrec}, aIsNull \in {LeftAssociative, RightAssociative} }

GroupInit ==
    \/ \E pair \in GroupPairs : \E d \in GroupDialects :
          /\ pair[1] # pair[2]
          /\ Start(pair[1], d, pair[2])
    \/ \E pair \in MixedPairs : \E d \in MixedDialects :
          /\ WrittenAlike(pair[1], pair[2], d)
          /\ Start(pair[1], d, pair[2])

GroupNext == StringifyRoot \/ StringifyPeer

GroupSpec == GroupInit /\ [][GroupNext]_vars

(***************************************************************************)
(* What the claims are stated with.                                        *)
(***************************************************************************)
(* The precedence and associativity an operator ends up with, 0 for none. *)
EffectivePrecedence(op, cc) ==
    IF op.CustomPrecedence # 0 THEN op.CustomPrecedence ELSE cc.precedence[op.Type]

EffectiveAssociativity(op, cc) ==
    IF op.CustomAssociativity # 0 THEN op.CustomAssociativity ELSE cc.associativity[op.Type]

(* The text of n printed alone into an empty Compiler of the same dialect. *)
TextOf(n, cc) == Stringify(n, NewCompiler(cc.precedence, cc.associativity, cc.quote)).c.buf

Parens(wrap, text) == IF wrap THEN "(" \o text \o ")" ELSE text

Printed == phase \in {"printed", "peerPrinted"}

(* The operators whose precedence the printing of the root consults. *)
Consulted(n) ==
    {n} \cup
    CASE n.node = "UnaryOperator" -> {k \in {n.Expr} : IsOperator(k)}
      [] n.node = "BinaryOperator" -> {k \in {n.Left, n.Right} : IsOperator(k)}
      [] n.node = "TernaryOperator" -> {k \in {n.Expr1, n.Expr2, n.Expr3} : IsOperator(k)}

FirstChild(n) ==
    CASE n.node = "UnaryOperator" -> n.Expr
      [] n.node = "BinaryOperator" -> n.Left
      [] n.node = "TernaryOperator" -> n.Expr1

(* The associativity of the root is resolved and accepted before its precedence is. *)
AssociativityPasses(n, cc) ==
    CASE n.node = "UnaryOperator" ->
            EffectiveAssociativity(n, cc) \in {LeftAssociative, RightAssociative}
      [] n.node = "BinaryOperator" -> EffectiveAssociativity(n, cc) # 0
      [] n.node = "TernaryOperator" -> TRUE

(***************************************************************************)
(* C1: a printed binary operator is its left child, its symbol and its     *)
(* right child; the left child is in parentheses iff it is an operator and *)
(* (A = NonAssociative and C <= P) or (A # NonAssociative and (C < P or    *)
(* (C = P and A = Right))), the right child the same with Left for Right;  *)
(* a child that is no operator is never in parentheses.  With SUB          *)
(* left-associative, SUB(SUB(a,b),c) is "a - b - c" and SUB(a,SUB(b,c)) is *)
(* "a - (b - c)".                                                          *)
(***************************************************************************)
C1_Wrap(assoc, ownPrec, childPrec, tieSide) ==
    \/ (assoc = NonAssociative /\ childPrec <= ownPrec)
    \/ (assoc # NonAssociative /\ (childPrec < ownPrec \/ (childPrec = ownPrec /\ assoc = tieSide)))

C1_BinaryParens ==
    (Printed /\ root.node = "BinaryOperator" /\ err = nil) =>
        LET A == EffectiveAssociativity(root, c)
            P == EffectivePrecedence(root, c)
            wrapLeft == IsOperator(root.Left)
                        /\ C1_Wrap(A, P, EffectivePrecedence(root.Left, c), RightAssociative)
            wrapRight == IsOperator(root.Right)
                         /\ C1_Wrap(A, P, EffectivePrecedence(root.Right, c), LeftAssociative)
        IN  /\ c.buf = Parens(wrapLeft, TextOf(root.Left, c)) \o " " \o root.Symbol \o " "
                        \o Parens(wrapRight, TextOf(root.Right, c))
            /\ (root = Sub(Sub(a, b), Column("c")) /\ A = LeftAssociative) => c.buf = "a - b - c"
            /\ (root = Sub(a, Sub(b, Column("c"))) /\ A = LeftAssociative) => c.buf = "a - (b - c)"

C1_Witness ==
    /\ Printed
    /\ root = Sub(a, Sub(b, Column("c")))
    /\ EffectiveAssociativity(root, c) = LeftAssociative
    /\ c.buf = "a - (b - c)"

(***************************************************************************)
(* C2: a printed ternary operator is "child1 SYMBOL1 child2 SYMBOL2        *)
(* child3"; each child is in parentheses iff it is an operator whose       *)
(* precedence is at most the ternary's own, each child on its own.         *)
(***************************************************************************)
C2_TernaryParens ==
    (Printed /\ root.node = "TernaryOperator" /\ err = nil) =>
        LET P == EffectivePrecedence(root, c)
            wrap(k) == IsOperator(k) /\ EffectivePrecedence(k, c) <= P
        IN  c.buf = Parens(wrap(root.Expr1), TextOf(root.Expr1, c))
                    \o " " \o root.Symbol1 \o " "
                    \o Parens(wrap(root.Expr2), TextOf(root.Expr2, c))
                    \o " " \o root.Symbol2 \o " "
                    \o Parens(wrap(root.Expr3), TextOf(root.Expr3, c))

(* A tie in the first place, a higher precedence in the third: only the first is wrapped. *)
C2_Witness ==
    /\ Printed
    /\ err = nil
    /\ root.node = "TernaryOperator"
    /\ IsOperator(root.Expr1) /\ IsOperator(root.Expr3) /\ ~IsOperator(root.Expr2)
    /\ EffectivePrecedence(root.Expr1, c) = EffectivePrecedence(root, c)
    /\ EffectivePrecedence(root.Expr3, c) > EffectivePrecedence(root, c)
    /\ c.buf = "(a*b) BETWEEN b AND c + d"

(***************************************************************************)
(* C3: the operand of a printed unary operator is in parentheses iff it is *)
(* an operator whose precedence is strictly less than the unary's own.     *)
(***************************************************************************)
C3_UnaryParens ==
    (Printed /\ root.node = "UnaryOperator" /\ err = nil) =>
        LET wrap == IsOperator(root.Expr)
                    /\ EffectivePrecedence(root.Expr, c) < EffectivePrecedence(root, c)
            operand == Parens(wrap, TextOf(root.Expr, c))
        IN  c.buf = IF EffectiveAssociativity(root, c) = RightAssociative
                    THEN root.Symbol \o " " \o operand
                    ELSE operand \o " " \o root.Symbol

(* An operand of equal precedence, printed without parentheses. *)
C3_Witness ==
    /\ Printed
    /\ err = nil
    /\ root.node = "UnaryOperator"
    /\ IsOperator(root.Expr)
    /\ EffectivePrecedence(root.Expr, c) = EffectivePrecedence(root, c)
    /\ c.buf = "NOT a + b"

(***************************************************************************)
(* C10: resolveOperatorPrecedence gives the operator's own precedence when *)
(* that is not 0, else the dialect's entry when that is not 0, else fails  *)
(* with ErrNoPrecedence; it never gives 0 without an error; and so it is   *)
(* for the operator printed and for each operator child consulted.         *)
(***************************************************************************)
C10_ResolvePrecedence ==
    IsOperator(root) =>
        /\ \A op \in Consulted(root) :
              LET r == resolveOperatorPrecedence(op, c)
                  table == c.precedence[op.Type]
              IN  /\ op.CustomPrecedence # 0 => r = [val |-> op.CustomPrecedence, err |-> nil]
                  /\ (op.CustomPrecedence = 0 /\ table # 0) => r = [val |-> table, err |-> nil]
                  /\ (op.CustomPrecedence = 0 /\ table = 0) => r.err = ErrNoPrecedence
                  /\ ~(r.val = 0 /\ r.err = nil)
        /\ (Printed /\ err = nil) =>
              \A op \in Consulted(root) : EffectivePrecedence(op, c) # 0
        /\ (Printed /\ AssociativityPasses(root, c) /\ EffectivePrecedence(root, c) = 0) =>
              err = ErrNoPrecedence
        /\ (Printed /\ AssociativityPasses(root, c) /\ EffectivePrecedence(root, c) # 0
             /\ IsOperator(FirstChild(root)) /\ EffectivePrecedence(FirstChild(root), c) = 0) =>
              err = ErrNoPrecedence

(* The root's own precedence overrides a different entry; its child has neither. *)
C10_Witness ==
    /\ Printed
    /\ IsOperator(root)
    /\ root.CustomPrecedence # 0
    /\ c.precedence[root.Type] # 0
    /\ c.precedence[root.Type] # root.CustomPrecedence
    /\ IsOperator(FirstChild(root))
    /\ EffectivePrecedence(FirstChild(root), c) = 0
    /\ err = ErrNoPrecedence

(***************************************************************************)
(* What the claims about the rewrite are stated with.                      *)
(***************************************************************************)
IsNotNode(n) == n.node = "UnaryOperator" /\ n.Type = OpNot

Range(seq) == { seq[i] : i \in 1..Len(seq) }

Children(n) ==
    CASE n.node = "UnaryOperator" -> {n.Expr}
      [] n.node = "BinaryOperator" -> {n.Left, n.Right}
      [] n.node = "TernaryOperator" -> {n.Expr1, n.Expr2, n.Expr3}
      [] n.node = "CastExpr" -> {n.expr, n.sqlType}
      [] n.node = "FuncExpr" -> Range(n.args)
      [] n.node = "Tuple" -> Range(n.exprs)
      [] n.node = "CaseExpr" -> Range(n.conds) \cup Range(n.results) \cup ({n.else_} \ {Nil})
      [] n.node = "LabeledColumn" -> {n.Expr}
      [] n.node = "LabeledSelectStmt" -> {n.SelectStmt}
      [] n.node = "FromClauseItem" -> {n.TableRef, n.Subquery, n.JoinClause} \ {Nil}
      [] n.node = "FromClause" -> {n.FromClauseItem}
      [] n.node = "JoinClause" -> {n.left, n.right, n.on}
      [] n.node \in {"WhereClause", "HavingClause", "LimitClause", "OffsetClause"} -> {n.Expr}
      [] n.node = "GroupByClause" -> Range(n.exprs)
      [] n.node = "orderbyItem" -> {n.expr}
      [] n.node = "OrderByClause" -> Range(n.items)
      [] n.node = "SelectStmt" ->
            Range(n.Columns) \cup ({n.FromClause, n.WhereClause, n.GroupByClause,
                                    n.HavingClause, n.OrderByClause, n.LimitClause,
                                    n.OffsetClause} \ {Nil})
      [] OTHER -> {}

RECURSIVE Nodes(_)
Nodes(n) == {n} \cup UNION { Nodes(k) : k \in Children(n) }

(* The number of NOTs at the top of n, and what they are applied to. *)
RECURSIVE CountNots(_)
CountNots(n) == IF IsNotNode(n) THEN 1 + CountNots(n.Expr) ELSE 0

RECURSIVE StripNots(_)
StripNots(n) == IF IsNotNode(n) THEN StripNots(n.Expr) ELSE n

Collapsible(n) == IsNotNode(n) /\ IsOperator(n.Expr) /\ negatable(n.Expr)

(* Transform of n, built as the caller built root. *)
Rewritten(n) == TransformLog(n, held).node

(***************************************************************************)
(* C5, as claimed: Transform of a NOT over a negatable operator c is       *)
(* Transform(c.negate()) and no NOT node is returned at that position;     *)
(* over any other child it is the same NOT with its child transformed.     *)
(***************************************************************************)
C5_NoNotReturned ==
    (passes = 1 /\ IsNotNode(orig)) =>
        IF IsOperator(orig.Expr) /\ negatable(orig.Expr)
        THEN root = Rewritten(negate(orig.Expr)) /\ ~IsNotNode(root)
        ELSE root = [orig EXCEPT !.Expr = Rewritten(orig.Expr)]

(***************************************************************************)
(* C5, amended: Transform of a NOT over a negatable operator c is          *)
(* Transform(c.negate()), which is a NOT node only when c.negate() is one  *)
(* (c is itself a NOT over a NOT, or c's negated kind is OpNot) and then   *)
(* one that cannot be collapsed; over any other child it is the same NOT   *)
(* with its child transformed; NOT(IS_NULL(x)) rewritten prints as         *)
(* IS_NOT_NULL(x) does.                                                    *)
(***************************************************************************)
C5_NotCollapsed ==
    /\ (passes = 1 /\ IsNotNode(orig)) =>
          IF IsOperator(orig.Expr) /\ negatable(orig.Expr)
          THEN /\ root = Rewritten(negate(orig.Expr))
               /\ IsNotNode(root) => (IsNotNode(negate(orig.Expr)) /\ ~Collapsible(root))
          ELSE root = [orig EXCEPT !.Expr = Rewritten(orig.Expr)]
    /\ (phase = "peerPrinted" /\ passes >= 1 /\ orig = Not(IsNull(a))) =>
          /\ root = IsNotNull(a)
          /\ err = nil
          /\ c.buf = peerC.buf
          /\ c.buf = c.quote \o "a" \o c.quote \o " IS NOT NULL"

C5_Witness ==
    /\ phase = "peerPrinted"
    /\ passes = 1
    /\ orig = Not(IsNull(a))
    /\ peer = IsNotNull(a)
    /\ c.buf = "a IS NOT NULL"

(***************************************************************************)
(* C6: Transform(Not(Not(P))) is Transform(P) for every P, and k nested    *)
(* NOTs over P rewrite to Transform(P) for even k, to Transform(Not(P))    *)
(* for odd k.                                                              *)
(***************************************************************************)
C6_DoubleNegation ==
    passes = 1 =>
        /\ CountNots(orig) >= 2 => root = Rewritten(orig.Expr.Expr)
        /\ CountNots(orig) % 2 = 0 => root = Rewritten(StripNots(orig))
        /\ CountNots(orig) % 2 = 1 => root = Rewritten(Not(StripNots(orig)))

(* Four NOTs over an operator that is not negatable. *)
C6_Witness ==
    /\ passes = 1
    /\ orig = NotChain(4, And(a, b))
    /\ root = And(a, b)

(***************************************************************************)
(* C7: rewriting is idempotent: a second Transform returns the tree the    *)
(* first one returned.                                                     *)
(***************************************************************************)
C7_Idempotent == passes >= 2 => root = prev

(* A tree the first Transform changed, in the clauses that hold the shared *)
(* expression and, through them, in the labeled column that holds it too.  *)
C7_Witness ==
    /\ passes = 2
    /\ held # {}
    /\ orig = SelectBoth(And(NotChain(2, a), b))
    /\ root = SelectBoth(And(a, b))
    /\ root = prev

(***************************************************************************)
(* C8, as claimed: after Transform of a root of any node type, no node of  *)
(* the tree is a NOT whose child is a negatable operator.                  *)
(***************************************************************************)
C8_NoCollapsibleNotLeft ==
    passes >= 1 => \A n \in Nodes(root) : ~Collapsible(n)

(***************************************************************************)
(* C9: negate() of a negatable operator other than NOT is an operator of   *)
(* the same arity with the receiver's kind and symbols swapped with its    *)
(* negated kind and symbols, and the same children, CustomPrecedence and   *)
(* CustomAssociativity; Transform calls negate() only on negatable         *)
(* operators.                                                              *)
(***************************************************************************)
C9_Swapped(op, n) ==
    /\ n.node = op.node
    /\ n.Type = op.NegatedType
    /\ n.NegatedType = op.Type
    /\ n.CustomPrecedence = op.CustomPrecedence
    /\ n.CustomAssociativity = op.CustomAssociativity
    /\ Children(n) = Children(op)
    /\ CASE op.node = "UnaryOperator" ->
              /\ n.Symbol = op.NegatedSymbol /\ n.NegatedSymbol = op.Symbol
              /\ n.Expr = op.Expr
         [] op.node = "BinaryOperator" ->
              /\ n.Symbol = op.NegatedSymbol /\ n.NegatedSymbol = op.Symbol
              /\ n.Left = op.Left /\ n.Right = op.Right
         [] op.node = "TernaryOperator" ->
              /\ n.Symbol1 = op.NegatedSymbol1 /\ n.NegatedSymbol1 = op.Symbol1
              /\ n.Symbol2 = op.NegatedSymbol2 /\ n.NegatedSymbol2 = op.Symbol2
              /\ n.Expr1 = op.Expr1 /\ n.Expr2 = op.Expr2 /\ n.Expr3 = op.Expr3

C9_NegateSwaps ==
    /\ \A op \in negated : IsOperator(op) /\ negatable(op)
    /\ \A op \in negated \cup { n \in Nodes(orig) : IsOperator(n) } :
          (negatable(op) /\ ~IsNotNode(op)) => C9_Swapped(op, negate(op))

(* A binary operator with a precedence and associativity of its own was negated. *)
C9_Witness ==
    /\ passes = 1
    /\ \E op \in negated :
          /\ op.node = "BinaryOperator"
          /\ op.CustomPrecedence # 0
          /\ op.CustomAssociativity # 0
          /\ root = BinaryOperator(OpNotEq, "<>", OpEq, "=", a, b, op.CustomPrecedence,
                                    op.CustomAssociativity, FALSE)

(***************************************************************************)
(* What the claim about groupings is stated with.                          *)
(***************************************************************************)
NoTernary(t) ==
    \A n \in Nodes(t) : n.node \in {"UnaryOperator", "BinaryOperator", "Column"}

(* Operators of equal precedence have the same associativity. *)
LevelsAgree(ops, cc) ==
    \A m \in ops : \A n \in ops :
        EffectivePrecedence(m, cc) = EffectivePrecedence(n, cc)
            => EffectiveAssociativity(m, cc) = EffectiveAssociativity(n, cc)

(* Every operator resolves to one of the three associativities. *)
NamedAssociativity(ops, cc) ==
    \A n \in ops :
        EffectiveAssociativity(n, cc) \in {NonAssociative, LeftAssociative, RightAssociative}

OperatorsOf(t) == {n \in Nodes(t) : IsOperator(n)}

BothPrinted == phase = "peerPrinted" /\ err = nil /\ peerErr = nil /\ root # peer

(***************************************************************************)
(* C4, as claimed: for any output context and any two different operator   *)
(* trees of unary, binary and ternary operators over atomic leaves,        *)
(* Stringify gives different texts.                                        *)
(***************************************************************************)
C4_AnyGroupingDistinct == BothPrinted => c.buf # peerC.buf

(***************************************************************************)
(* C4, amended: two different trees of unary and binary operators that     *)
(* hold the same operators (the same instances, built by this package's    *)
(* constructors or with a precedence and associativity of their own) and   *)
(* the same column leaves in the same written order print as different     *)
(* texts whenever both print without error, every operator resolves to     *)
(* NonAssociative, LeftAssociative or RightAssociative, and operators of    *)
(* equal resolved precedence have the same resolved associativity.         *)
(***************************************************************************)
C4_GroupingDistinct ==
    ( /\ BothPrinted
      /\ NoTernary(root) /\ NoTernary(peer)
      /\ WrittenAlike(root, peer, c)
      /\ NamedAssociativity(OperatorsOf(root) \cup OperatorsOf(peer), c)
      /\ LevelsAgree(OperatorsOf(root) \cup OperatorsOf(peer), c) )
    => c.buf # peerC.buf

(* Two groupings of one NOT and one Sub, the two at one precedence and both *)
(* RightAssociative: the tie is in parentheses on the left of the Sub only. *)
C4_Witness ==
    /\ BothPrinted
    /\ root = Not(Sub(a, b))
    /\ peer = Sub(Not(a), b)
    /\ WrittenAlike(root, peer, c)
    /\ EffectivePrecedence(root, c) = EffectivePrecedence(peer, c)
    /\ LevelsAgree(OperatorsOf(root) \cup OperatorsOf(peer), c)
    /\ c.buf = "NOT a - b"
    /\ peerC.buf = "(NOT a) - b"

(***************************************************************************)
(* What the statement above leaves out, each with both trees printed       *)
(* without error into one and the same text.                               *)
(***************************************************************************)
(* An associativity per level does not hold: a Sub of the dialect's level,  *)
(* LeftAssociative, and one at the same precedence that is RightAssociative *)
(* of its own.                                                             *)
LevelsDisagreeLost ==
    /\ BothPrinted
    /\ WrittenAlike(root, peer, c)
    /\ NoTernary(root) /\ NoTernary(peer)
    /\ NamedAssociativity(OperatorsOf(root) \cup OperatorsOf(peer), c)
    /\ ~LevelsAgree(OperatorsOf(root) \cup OperatorsOf(peer), c)
    /\ c.buf = peerC.buf

(* Every operator has the own associativity MaxAssociativity, at one level. *)
OddAssociativityLost ==
    /\ BothPrinted
    /\ \/ /\ root = MakeBinary("SubOdd", MakeBinary("SubOdd", a, b), Column("c"))
          /\ peer = MakeBinary("SubOdd", a, MakeBinary("SubOdd", b, Column("c")))
       \/ /\ peer = MakeBinary("SubOdd", MakeBinary("SubOdd", a, b), Column("c"))
          /\ root = MakeBinary("SubOdd", a, MakeBinary("SubOdd", b, Column("c")))
    /\ LevelsAgree(OperatorsOf(root) \cup OperatorsOf(peer), c)
    /\ c.buf = "a - b - c"
    /\ peerC.buf = "a - b - c"

(* A ternary operator over a binary one of higher precedence that is       *)
(* written with the ternary's second symbol.                               *)
TernaryLost ==
    /\ BothPrinted
    /\ root = Between(a, MakeBinary("AndOwn", b, Column("c")), Column("d"))
    /\ peer = Between(a, b, MakeBinary("AndOwn", Column("c"), Column("d")))
    /\ NamedAssociativity(OperatorsOf(root) \cup OperatorsOf(peer), c)
    /\ LevelsAgree(OperatorsOf(root) \cup OperatorsOf(peer), c)
    /\ c.buf = "a BETWEEN b AND c AND d"
    /\ peerC.buf = "a BETWEEN b AND c AND d"

(***************************************************************************)
(* Associativity: an operator of each arity with any value of the type     *)
(* Associativity (a uint) as its own, resolved against a dialect and, if   *)
(* unary, printed.                                                         *)
(***************************************************************************)
AssocKids == { a, Add(a, b), Not(a), BinaryOperator(OpAdd, "+", 0, "", a, b, 1, 0, FALSE) }

AssocTrees ==
    { UnaryOperator(OpNot, "NOT", 0, "", k, p, s) :
        k \in AssocKids, p \in {0, MaxPrec}, s \in 0..MaxAssociativity }
    \cup
    { UnaryOperator(OpIsNull, "IS NULL", OpIsNotNull, "IS NOT NULL", k, p, s) :
        k \in {a, Add(a, b)}, p \in {0, MaxPrec}, s \in 0..MaxAssociativity }
    \cup
    { BinaryOperator(OpSub, "-", 0, "", a, b, p, s, FALSE) :
        p \in {0, MaxPrec}, s \in 0..MaxAssociativity }
    \cup
    { TernaryOperator(OpBetween, "BETWEEN", "AND", OpNotBetween, "NOT BETWEEN", "AND",
                      a, b, b, p, s) :
        p \in {0, MaxPrec}, s \in 0..MaxAssociativity }

AssocInit == \E t \in AssocTrees : \E d \in RenderDialects : Start(t, d, Nil)

ResolveAssociativity ==
    /\ phase = "built"
    /\ IsOperator(root)
    /\ call' = [fn |-> "resolveOperatorAssociativity", op |-> root]
    /\ out' = resolveOperatorAssociativity(root, c)
    /\ phase' = "called"
    /\ UNCHANGED <<root, c, err, orig, prev, passes, negated, peer, peerC, peerErr, heap, ptr, held, copy>>

AssocNext == ResolveAssociativity \/ StringifyRoot

AssocSpec == AssocInit /\ [][AssocNext]_vars

Associativities == {NonAssociative, LeftAssociative, RightAssociative}

(***************************************************************************)
(* C11, as claimed: resolveOperatorAssociativity gives the operator's own  *)
(* CustomAssociativity only if that is Left, Right or NonAssociative,      *)
(* otherwise the dialect's entry, and ErrNoAssociativity if that is unset  *)
(* too; a resolved associativity is always Left, Right or NonAssociative.  *)
(***************************************************************************)
C11_ResolveAssociativity ==
    (phase = "called" /\ call.fn = "resolveOperatorAssociativity") =>
        LET own == call.op.CustomAssociativity
            entry == c.associativity[call.op.Type]
        IN  /\ IF own \in Associativities THEN out = [val |-> own, err |-> nil]
               ELSE IF entry # 0 THEN out = [val |-> entry, err |-> nil]
               ELSE out.err = ErrNoAssociativity
            /\ out.err = nil => out.val \in Associativities

(***************************************************************************)
(* C12, as claimed: a unary operator whose associativity resolves to       *)
(* NonAssociative fails with ErrNonAssociative with nothing written, even  *)
(* when its precedence cannot be resolved; one that is right-associative   *)
(* prints "SYMBOL operand", one that is left-associative "operand SYMBOL"; *)
(* whenever it prints, its symbol is written exactly once.                 *)
(***************************************************************************)
C12_UnarySymbolOnce ==
    (Printed /\ root.node = "UnaryOperator") =>
        LET A == EffectiveAssociativity(root, c)
            wrap == IsOperator(root.Expr)
                    /\ EffectivePrecedence(root.Expr, c) < EffectivePrecedence(root, c)
            operand == Parens(wrap, TextOf(root.Expr, c))
            prefix == root.Symbol \o " " \o operand
            suffix == operand \o " " \o root.Symbol
        IN  /\ A = NonAssociative => (err = ErrNonAssociative /\ c.buf = "")
            /\ (err = nil /\ A = RightAssociative) => c.buf = prefix
            /\ (err = nil /\ A = LeftAssociative) => c.buf = suffix
            /\ err = nil => c.buf \in {prefix, suffix}

(***************************************************************************)
(* Placeholders: Placeholder.Stringify called for one name after another   *)
(* against one Compiler, into which a tree holding placeholders may then   *)
(* be printed.  out is the sequence of the names of the calls made.        *)
(***************************************************************************)
MaxCalls == 3

PlaceholderNames == {"x", "y", "z"}

PlaceholderTrees ==
    { Eq(a, Placeholder("x")),
      And(Eq(a, Placeholder("x")), Eq(b, Placeholder("x"))),
      And(Eq(Placeholder("y"), Placeholder("x")),
          Between(a, Placeholder("y"), Placeholder("z"))),
      FuncExpr("f", <<Placeholder("z"), MakeTuple(<<Placeholder("x"), Placeholder("z")>>)>>, FALSE) }

PlaceholderInit ==
    \E t \in PlaceholderTrees : \E d \in {Dialect, QuotingDialect} :
        /\ root = t /\ orig = t /\ prev = Nil
        /\ c = d /\ err = nil
        /\ phase = "built" /\ passes = 0 /\ negated = {}
        /\ peer = Nil /\ peerC = d /\ peerErr = nil
        /\ call = Nil
        /\ out = <<>>
        /\ LET built == Build(<<>>, {}, t, {})
           IN  /\ heap = built.h
               /\ ptr = built.p
        /\ held = {}
        /\ copy = 0

StringifyPlaceholder ==
    \E name \in PlaceholderNames :
        /\ phase = "built"
        /\ Len(out) < MaxCalls
        /\ LET r == Stringify(Placeholder(name), c)
           IN  /\ c' = r.c
               /\ err' = r.err
        /\ call' = [fn |-> "Placeholder.Stringify", name |-> name]
        /\ out' = Append(out, name)
        /\ UNCHANGED <<root, phase, orig, prev, passes, negated, peer, peerC, peerErr, heap, ptr, held, copy>>

PlaceholderNext == StringifyPlaceholder \/ StringifyRoot

PlaceholderSpec == PlaceholderInit /\ [][PlaceholderNext]_vars

(* The names of the placeholders of a tree in the order they are printed. *)
RECURSIVE PlaceholderLeaves(_)
RECURSIVE PlaceholderLeavesOf(_, _)
PlaceholderLeavesOf(nodes, i) ==
    IF i > Len(nodes) THEN <<>>
    ELSE PlaceholderLeaves(nodes[i]) \o PlaceholderLeavesOf(nodes, i + 1)

PlaceholderLeaves(n) ==
    CASE n.node = "Placeholder" -> <<n.name>>
      [] n.node = "UnaryOperator" -> PlaceholderLeaves(n.Expr)
      [] n.node = "BinaryOperator" -> PlaceholderLeaves(n.Left) \o PlaceholderLeaves(n.Right)
      [] n.node = "TernaryOperator" ->
            PlaceholderLeaves(n.Expr1) \o PlaceholderLeaves(n.Expr2) \o PlaceholderLeaves(n.Expr3)
      [] n.node = "Tuple" -> PlaceholderLeavesOf(n.exprs, 1)
      [] n.node = "FuncExpr" -> PlaceholderLeavesOf(n.args, 1)
      [] OTHER -> <<>>

(* The names of a sequence of names, each once, in the order of first appearance. *)
RECURSIVE FirstSeen(_)
FirstSeen(names) ==
    IF names = <<>> THEN <<>>
    ELSE LET before == FirstSeen(SubSeq(names, 1, Len(names) - 1))
             last == names[Len(names)]
         IN  IF last \in Range(before) THEN before ELSE Append(before, last)

PositionIn(names, name) == CHOOSE i \in 1..Len(names) : names[i] = name

(* The texts of the calls for names[i..], each made from its name and position. *)
RECURSIVE TextsFrom(_, _, _)
TextsFrom(names, i, cc) ==
    IF i > Len(names) THEN ""
    ELSE makePlaceholder(cc, names[i], PositionIn(FirstSeen(names), names[i]))
         \o TextsFrom(names, i + 1, cc)

(***************************************************************************)
(* C13: after any sequence of Placeholder.Stringify calls against one      *)
(* Compiler the names bound are the names seen, each once, at positions    *)
(* 1..k in the order of first appearance, so that one name has one         *)
(* position and one text, two names have two positions, and a position     *)
(* never changes; EQ(column(a), placeholder(x)) binds x at position 1.     *)
(***************************************************************************)
C13_PlaceholderPositions ==
    LET seen == out \o (IF Printed THEN PlaceholderLeaves(root) ELSE <<>>)
    IN  /\ err = nil
        /\ c.placeholders = FirstSeen(seen)
        /\ \A i \in 1..Len(seen) : \A j \in 1..Len(seen) :
              (seen[i] = seen[j]) <=>
                  (PositionIn(c.placeholders, seen[i]) = PositionIn(c.placeholders, seen[j]))
        /\ ~Printed => c.buf = TextsFrom(out, 1, c)
        /\ (Printed /\ out = <<>> /\ root = Eq(a, Placeholder("x"))) =>
              /\ c.placeholders = <<"x">>
              /\ c.buf = c.quote \o "a" \o c.quote \o " = " \o makePlaceholder(c, "x", 1)

(* x, y and x again: x keeps position 1. *)
C13_Witness ==
    /\ phase = "built"
    /\ out = <<"x", "y", "x">>
    /\ c.placeholders = <<"x", "y">>
    /\ c.buf = "$1$2$1"

(***************************************************************************)
(* grammar.go: generatePlaceholders, makePlaceholderTuple and              *)
(* PlaceholderTuple.  A nil slice and a nil Node are Nil.                  *)
(***************************************************************************)
(* strconv.Itoa, for the numbers a loop index takes. *)
Itoa(n) == ToString(n)

(* An empty list returned for the length 0. *)
generatePlaceholdersFromZero(prefix, length) ==
    IF length < 0 THEN [val |-> Nil, err |-> ErrZeroLength]
    ELSE [val |-> [i \in 1..length |-> Placeholder(prefix \o Itoa(i))], err |-> nil]

generatePlaceholders(prefix, length) ==
    IF length <= 0 THEN [val |-> Nil, err |-> ErrZeroLength]
    ELSE [val |-> [i \in 1..length |-> Placeholder(prefix \o Itoa(i))], err |-> nil]

makePlaceholderTuple(placeholders) ==
    IF Len(placeholders) <= 0 THEN [val |-> Nil, err |-> ErrZeroLength]
    ELSE [val |-> MakeTuple(<<placeholders[1]>> \o SubSeq(placeholders, 2, Len(placeholders))),
          err |-> nil]

PlaceholderTuple(prefix, length) ==
    LET g == generatePlaceholders(prefix, length)
    IN  IF g.err # nil THEN [placeholders |-> Nil, tuple |-> Nil, err |-> g.err]
        ELSE LET t == makePlaceholderTuple(g.val)
             IN  IF t.err # nil THEN [placeholders |-> Nil, tuple |-> Nil, err |-> t.err]
                 ELSE [placeholders |-> g.val, tuple |-> t.val, err |-> t.err]

(***************************************************************************)
(* The two functions called with a prefix and a length of either sign.     *)
(***************************************************************************)
MaxLength == 4

Prefixes == {"", "p", "q", "arg", "p1", "x_", "$", "a"}

Lengths == (0 - 2)..MaxLength

GenerateInit == Start(Nil, Dialect, Nil)

CallGeneratePlaceholders ==
    \E prefix \in Prefixes : \E length \in Lengths :
        /\ call' = [fn |-> "generatePlaceholders", prefix |-> prefix, length |-> length]
        /\ out' = generatePlaceholders(prefix, length)
        /\ phase' = "called"
        /\ UNCHANGED <<root, c, err, orig, prev, passes, negated, peer, peerC, peerErr, heap, ptr, held, copy>>

CallPlaceholderTuple ==
    \E prefix \in Prefixes : \E length \in Lengths :
        /\ call' = [fn |-> "PlaceholderTuple", prefix |-> prefix, length |-> length]
        /\ out' = PlaceholderTuple(prefix, length)
        /\ phase' = "called"
        /\ UNCHANGED <<root, c, err, orig, prev, passes, negated, peer, peerC, peerErr, heap, ptr, held, copy>>

GenerateNext == CallGeneratePlaceholders \/ CallPlaceholderTuple

GenerateSpec == GenerateInit /\ [][GenerateNext]_vars

(* The decimal numerals the names end with. *)
Numerals == <<"1", "2", "3", "4", "5", "6", "7", "8", "9", "10", "11", "12">>

NamedInOrder(placeholders, prefix, length) ==
    /\ Len(placeholders) = length
    /\ \A i \in 1..length : placeholders[i] = Placeholder(prefix \o Numerals[i])
    /\ \A i \in 1..length : \A j \in 1..length : i # j => placeholders[i] # placeholders[j]

(***************************************************************************)
(* C14: generatePlaceholders(prefix, n) fails with ErrZeroLength and       *)
(* returns no list for n <= 0, and for n >= 1 returns the n different      *)
(* placeholders prefix1 .. prefixn in that order; PlaceholderTuple fails   *)
(* the same way for n <= 0 and otherwise returns those placeholders and a  *)
(* tuple of the same placeholders in the same order.                       *)
(***************************************************************************)
C14_GeneratePlaceholders ==
    phase = "called" =>
        /\ call.fn = "generatePlaceholders" =>
              IF call.length <= 0
              THEN out.err = ErrZeroLength /\ out.val = Nil
              ELSE out.err = nil /\ NamedInOrder(out.val, call.prefix, call.length)
        /\ call.fn = "PlaceholderTuple" =>
              IF call.length <= 0
              THEN out.err = ErrZeroLength /\ out.placeholders = Nil /\ out.tuple = Nil
              ELSE /\ out.err = nil
                   /\ NamedInOrder(out.placeholders, call.prefix, call.length)
                   /\ out.tuple.node = "Tuple"
                   /\ out.tuple.exprs = out.placeholders

C14_Witness ==
    /\ phase = "called"
    /\ call = [fn |-> "PlaceholderTuple", prefix |-> "p", length |-> 3]
    /\ out.err = nil
    /\ out.tuple = MakeTuple(<<Placeholder("p1"), Placeholder("p2"), Placeholder("p3")>>)

(***************************************************************************)
(* Negating twice: a negatable operator other than NOT, of each arity,     *)
(* with and without its own precedence and associativity and, if binary,   *)
(* with and without SuppressSpace; peer is what negate().negate() gives.   *)
(***************************************************************************)
NegateKids == { a, Add(a, b), IsNull(a) }

NegateTrees ==
    { UnaryOperator(OpIsNull, "IS NULL", OpIsNotNull, "IS NOT NULL", k, p, s) :
        k \in NegateKids, p \in {0, MaxPrec}, s \in {0, LeftAssociative} }
    \cup
    { BinaryOperator(OpEq, "=", OpNotEq, "<>", k, b, p, s, g) :
        k \in NegateKids, p \in {0, MaxPrec}, s \in {0, LeftAssociative}, g \in BOOLEAN }
    \cup
    { TernaryOperator(OpBetween, "BETWEEN", "AND", OpNotBetween, "NOT BETWEEN", "AND",
                      k, a, b, p, s) :
        k \in NegateKids, p \in {0, MaxPrec}, s \in {0, LeftAssociative} }

NegateInit == \E t \in NegateTrees : \E d \in {Dialect, QuotingDialect} : Start(t, d, Nil)

NegateTwice ==
    /\ phase = "built"
    /\ peer = Nil
    /\ IsOperator(root) /\ negatable(root) /\ ~IsNotNode(root)
    /\ IsOperator(negate(root))
    /\ call' = [fn |-> "negate", op |-> root]
    /\ out' = negate(root)
    /\ peer' = negate(negate(root))
    /\ UNCHANGED <<root, c, err, phase, orig, prev, passes, negated, peerC, peerErr, heap, ptr, held, copy>>

NegateNext == NegateTwice \/ StringifyRoot \/ StringifyPeer

NegateSpec == NegateInit /\ [][NegateNext]_vars

(***************************************************************************)
(* C16, as claimed: for every negatable operator op other than NOT,        *)
(* op.negate().negate() equals op field for field, SuppressSpace included, *)
(* and so prints the same text as op.                                      *)
(***************************************************************************)
C16_NegateInvolution ==
    peer # Nil =>
        /\ peer = root
        /\ phase = "peerPrinted" => (peerErr = err /\ peerC.buf = c.buf)

(***************************************************************************)
(* Failing renders: trees of operators, tuples, function calls, columns    *)
(* and placeholders, printed against dialects that leave the precedence or *)
(* the associativity of some operator types unset, or make NOT             *)
(* non-associative; a FromClauseItem with nothing set fails by itself.     *)
(***************************************************************************)
AbortDialect(noPrecedence, noAssociativity, nonAssociative) ==
    NewCompiler([t \in OperatorTypes |-> IF t \in noPrecedence THEN 0 ELSE DialectPrecedence[t]],
                [t \in OperatorTypes |->
                    IF t \in noAssociativity THEN 0
                    ELSE IF t \in nonAssociative THEN NonAssociative
                    ELSE DialectAssociativity[t]],
                "")

AbortDialects ==
    { AbortDialect(np, na, nn) :
        np \in {{}, {OpAdd}, {OpEq}, {OpNot}, {OpIsNull}},
        na \in {{}, {OpAdd}, {OpAnd}},
        nn \in {{}, {OpNot}} }

AbortParts ==
    { Eq(a, Placeholder("x")),
      Add(Placeholder("y"), b),
      Not(Eq(b, Placeholder("y"))),
      IsNull(Add(a, Placeholder("x"))),
      MakeTuple(<<Placeholder("x"), Add(a, b)>>),
      FuncExpr("f", <<Add(a, b), Placeholder("y")>>, FALSE),
      FromClauseItem(Nil, Nil, Nil),
      Placeholder("z") }

AbortTrees ==
    UNION { { And(p, q), Between(p, q, a), Not(And(p, q)), MakeTuple(<<p, q>>) } :
            p \in AbortParts, q \in AbortParts }

AbortInit == \E t \in AbortTrees : \E d \in AbortDialects : Start(t, d, Nil)

AbortNext == StringifyRoot

AbortSpec == AbortInit /\ [][AbortNext]_vars

(***************************************************************************)
(* What the claim about failing renders is stated with: the steps a render *)
(* of n takes in order, each a text written, an identifier written, a      *)
(* placeholder bound and written, or an error raised; and the Compiler and *)
(* error left by taking them up to the first error and none after it.      *)
(***************************************************************************)
WriteStep(text) == [op |-> "write", arg |-> text]

ErrorStep(e) == [op |-> "error", arg |-> e]

RECURSIVE Steps(_, _)
RECURSIVE CommaSteps(_, _, _)
CommaSteps(nodes, i, cc) ==
    IF i > Len(nodes) THEN <<>>
    ELSE (IF i > 1 THEN <<WriteStep(",")>> ELSE <<>>) \o Steps(nodes[i], cc)
         \o CommaSteps(nodes, i + 1, cc)

(* A child of an operator: its precedence is consulted before anything of it is *)
(* written (and, under a unary operator, before the operator's symbol is).      *)
ChildSteps(e, wrap, cc) ==
    IF ~IsOperator(e) THEN Steps(e, cc)
    ELSE IF EffectivePrecedence(e, cc) = 0 THEN <<ErrorStep(ErrNoPrecedence)>>
    ELSE IF wrap THEN <<WriteStep("(")>> \o Steps(e, cc) \o <<WriteStep(")")>>
    ELSE Steps(e, cc)

Steps(n, cc) ==
    CASE n.node = "Column" ->
            (IF n.TableLabel # ""
             THEN <<[op |-> "identifier", arg |-> n.TableLabel], WriteStep(".")>>
             ELSE <<>>) \o <<[op |-> "identifier", arg |-> n.Name]>>
      [] n.node = "Placeholder" -> <<[op |-> "placeholder", arg |-> n.name]>>
      [] n.node = "FromClauseItem" /\ Children(n) = {} -> <<ErrorStep(ErrUnknownFromClauseItem)>>
      [] n.node = "Tuple" -> <<WriteStep("(")>> \o CommaSteps(n.exprs, 1, cc) \o <<WriteStep(")")>>
      [] n.node = "FuncExpr" /\ Len(n.args) > 0 ->
            <<WriteStep(n.name), WriteStep("(")>> \o CommaSteps(n.args, 1, cc) \o <<WriteStep(")")>>
      [] n.node = "UnaryOperator" ->
            LET A == EffectiveAssociativity(n, cc)
                P == EffectivePrecedence(n, cc)
            IN  IF A = 0 THEN <<ErrorStep(ErrNoAssociativity)>>
                ELSE IF A = NonAssociative THEN <<ErrorStep(ErrNonAssociative)>>
                ELSE IF P = 0 THEN <<ErrorStep(ErrNoPrecedence)>>
                ELSE IF IsOperator(n.Expr) /\ EffectivePrecedence(n.Expr, cc) = 0
                     THEN <<ErrorStep(ErrNoPrecedence)>>
                ELSE (IF A = RightAssociative THEN <<WriteStep(n.Symbol \o " ")>> ELSE <<>>)
                     \o ChildSteps(n.Expr, EffectivePrecedence(n.Expr, cc) < P, cc)
                     \o (IF A = LeftAssociative THEN <<WriteStep(" " \o n.Symbol)>> ELSE <<>>)
      [] n.node = "BinaryOperator" ->
            LET A == EffectiveAssociativity(n, cc)
                P == EffectivePrecedence(n, cc)
            IN  IF A = 0 THEN <<ErrorStep(ErrNoAssociativity)>>
                ELSE IF P = 0 THEN <<ErrorStep(ErrNoPrecedence)>>
                ELSE ChildSteps(n.Left, C1_Wrap(A, P, EffectivePrecedence(n.Left, cc),
                                                RightAssociative), cc)
                     \o <<WriteStep(IF n.SuppressSpace THEN n.Symbol
                                    ELSE " " \o n.Symbol \o " ")>>
                     \o ChildSteps(n.Right, C1_Wrap(A, P, EffectivePrecedence(n.Right, cc),
                                                 LeftAssociative), cc)
      [] n.node = "TernaryOperator" ->
            LET P == EffectivePrecedence(n, cc)
            IN  IF P = 0 THEN <<ErrorStep(ErrNoPrecedence)>>
                ELSE ChildSteps(n.Expr1, EffectivePrecedence(n.Expr1, cc) <= P, cc)
                     \o <<WriteStep(" " \o n.Symbol1 \o " ")>>
                     \o ChildSteps(n.Expr2, EffectivePrecedence(n.Expr2, cc) <= P, cc)
                     \o <<WriteStep(" " \o n.Symbol2 \o " ")>>
                     \o ChildSteps(n.Expr3, EffectivePrecedence(n.Expr3, cc) <= P, cc)

TakeStep(cc, step) ==
    CASE step.op = "write" -> WriteVerbatim(cc, step.arg)
      [] step.op = "identifier" -> WriteIdentifier(cc, step.arg)
      [] step.op = "placeholder" ->
            LET ins == insertPlaceholder(cc, step.arg)
            IN  WriteVerbatim(ins.c, makePlaceholder(ins.c, step.arg, ins.pos))

RECURSIVE UpToFirstError(_, _, _)
UpToFirstError(steps, i, cc) ==
    IF i > Len(steps) THEN [c |-> cc, err |-> nil]
    ELSE IF steps[i].op = "error" THEN [c |-> cc, err |-> steps[i].arg]
    ELSE UpToFirstError(steps, i + 1, TakeStep(cc, steps[i]))

(***************************************************************************)
(* C15: a render that meets an error stops there: the buffer and the       *)
(* placeholders bound are those of the steps before the first error, none  *)
(* of a later step, and the root returns that first error, never nil and   *)
(* never another.                                                          *)
(***************************************************************************)
C15_AbortAtFirstError ==
    Printed =>
        LET steps == Steps(root, c)
            first == UpToFirstError(steps, 1, NewCompiler(c.precedence, c.associativity, c.quote))
        IN  /\ (\E i \in 1..Len(steps) : steps[i].op = "error") <=> err # nil
            /\ err = first.err
            /\ c = first.c

(* NOT fails inside the parentheses opened for it, after x was bound: *)
(* nothing of y or z is written or bound.                             *)
C15_Witness ==
    /\ Printed
    /\ root = Between(Eq(a, Placeholder("x")), Not(Eq(b, Placeholder("y"))), a)
    /\ err = ErrNonAssociative
    /\ c.buf = "(a = $1) BETWEEN ("
    /\ c.placeholders = <<"x">>

====
